---------------------------- MODULE Spec2Model ----------------------------
(***************************************************************************)
(* A model of the ecc-secp256k1 crate: field arithmetic (src/field.rs),    *)
(* the group law (src/point.rs), the Jacobi symbol (src/jacobi.rs) and the *)
(* keys, signatures and codecs of src/secp256k1.rs.                        *)
(*                                                                         *)
(* Scaling.  TLC's integers are 32 bits wide, so the curve is a member of  *)
(* the same family as secp256k1 that TLC can enumerate: y^2 = x^3 + 7 over *)
(* the prime field of P = 211 elements, of prime group order N = 199.  It  *)
(* keeps the shape the code depends on: P = 3 (mod 4), so that sqrt() is   *)
(* x^((P+1)/4); a = 0, b = 7; cofactor 1, hence no point with x = 0 or     *)
(* y = 0; N < P, so that an x-coordinate may be >= N; and both N and P are *)
(* smaller than the largest value a serialized scalar holds, so that a     *)
(* buffer may hold a value >= N or >= P.  A serialized scalar is           *)
(* ScalarLen = 2 bytes wide where the code has 32; bytes are bytes.        *)
(*                                                                         *)
(* BigInt operations follow num-bigint 0.2: `%` truncates (the sign of the *)
(* dividend), mod_floor floors, `>>` on a negative number rounds towards   *)
(* minus infinity, modpow returns a value in [0, modulus).                 *)
(***************************************************************************)
EXTENDS Integers, Sequences, FiniteSets, TLC

(***************************************************************************)
(* Curve parameters (Secp256k1::{p, n, a, b, Gx, Gy}), scaled.            *)
(***************************************************************************)
P == 211
N == 199
CurveA == 0
CurveB == 7
Gx == 3
Gy == 33
\* Width in bytes of a serialized scalar or coordinate ([u8; 32] in the code).
ScalarLen == 2
ByteBase == 256

(***************************************************************************)
(* BigInt primitives.  The operations of the arithmetic layers are TLA+    *)
(* functions, applied as f[x, y]: Rust evaluates an argument once, before  *)
(* the call, and so does a function application.                           *)
(***************************************************************************)
\* BigInt `%`: the remainder truncates towards zero.
Rem[a \in Int, m \in Int] ==
    LET d == IF m < 0 THEN -m ELSE m
    IN  IF a >= 0 THEN a % d ELSE -((-a) % d)

\* Integer::mod_floor.
ModFloor[a \in Int, m \in Int] == a % m

SqMod[a \in Int, m \in Int] == (a * a) % m

\* BigInt::modpow(exp, modulus) for exp >= 0, by square and multiply.
ModPow[base \in Int, exp \in Int, m \in Int] ==
    IF exp = 0 THEN 1 % m
    ELSE IF exp % 2 = 1
    THEN (SqMod[ModPow[base, exp \div 2, m], m] * (base % m)) % m
    ELSE SqMod[ModPow[base, exp \div 2, m], m]

\* BigInt `>> 1`: rounds towards minus infinity.
Shr1[a \in Int] == a \div 2

\* Integer::is_odd / is_even.
IsOdd[a \in Int] == a % 2 = 1

(***************************************************************************)
(* FieldElement { num, modulo }  (src/field.rs).                           *)
(***************************************************************************)
FieldElements == [num : Int, modulo : Int]

FE(num, modulo) == [num |-> num, modulo |-> modulo]

round_mod[f \in FieldElements] ==
    IF f.num < 0 THEN FE(f.num + f.modulo, f.modulo) ELSE f

mod_num[f \in FieldElements] == FE(ModFloor[f.num, f.modulo], f.modulo)

FieldNew(num, modulo) == mod_num[FE(num, modulo)]

infinity(modulo) == FE(0, modulo)

is_infinity[f \in FieldElements] == f = infinity(f.modulo)

is_zero[f \in FieldElements] == f.num = 0

is_even[f \in FieldElements] == ~IsOdd[f.num]

pow_u[f \in FieldElements, e \in Int] ==
    FE(ModPow[f.num, e, f.modulo], f.modulo)

sqrt[f \in FieldElements] ==
    FE(ModPow[f.num, (f.modulo + 1) \div 4, f.modulo], f.modulo)

reflect[f \in FieldElements] == FE(f.modulo - f.num, f.modulo)

mod_and_new[num \in Int, modulo \in Int] ==
    round_mod[FE(Rem[num, modulo], modulo)]

\* impl Add for FieldElement
FAdd[a \in FieldElements, b \in FieldElements] ==
    round_mod[FE(Rem[a.num + b.num, a.modulo], a.modulo)]

\* impl Sub for FieldElement
FSub[a \in FieldElements, b \in FieldElements] ==
    mod_and_new[a.num - b.num, a.modulo]

\* impl Mul for FieldElement
FMul[a \in FieldElements, b \in FieldElements] ==
    mod_and_new[a.num * b.num, a.modulo]

\* impl Mul<$t> for FieldElement: the other operand is a plain integer.
FMulInt[a \in FieldElements, k \in Int] == mod_and_new[a.num * k, a.modulo]

\* impl Add<&$t> for FieldElement: the integer is normalised first.
FAddInt[a \in FieldElements, k \in Int] == FAdd[a, FieldNew(k, a.modulo)]

\* impl Sub<FieldElement> for &$t: the integer is normalised first.
IntSubF[k \in Int, a \in FieldElements] == FSub[FieldNew(k, a.modulo), a]

\* impl Div<&FieldElement> for FieldElement: multiply by other^(modulo-2).
FDiv[a \in FieldElements, b \in FieldElements] ==
    LET inv == FE(ModPow[b.num, a.modulo - 2, a.modulo], b.modulo)
    IN  round_mod[FMul[a, inv]]

(***************************************************************************)
(* Byte buffers: BigInt::to_bytes_be / from_bytes_be at a fixed width.     *)
(***************************************************************************)
Byte == 0..(ByteBase - 1)

from_bytes_be[bytes \in Seq(Byte)] ==
    IF Len(bytes) = 0 THEN 0
    ELSE from_bytes_be[SubSeq(bytes, 1, Len(bytes) - 1)] * ByteBase
         + bytes[Len(bytes)]

\* The ScalarLen big-endian bytes of a number in [0, ByteBase^ScalarLen).
to_fixed_be[num \in Int, len \in Int] ==
    IF len = 0 THEN <<>>
    ELSE Append(to_fixed_be[num \div ByteBase, len - 1], num % ByteBase)

Power[b \in Int, e \in Int] == IF e = 0 THEN 1 ELSE b * Power[b, e - 1]

\* FieldElement::serialize_num panics on a negative or an over-wide number.
serialize_fits[f \in FieldElements] ==
    f.num >= 0 /\ f.num < Power[ByteBase, ScalarLen]

serialize_num[f \in FieldElements] == to_fixed_be[f.num, ScalarLen]

\* FieldElement::from_serialize: the number is taken as it is, not reduced.
from_serialize[bytes \in Seq(Byte), modulo \in Int] ==
    FE(from_bytes_be[bytes], modulo)

(***************************************************************************)
(* Point { x, y, group }  (src/point.rs).  Every point of the crate is     *)
(* built with the one group {a: 0, b: 7} and the modulus P, so the group   *)
(* field is left out and same_group never fails.                           *)
(***************************************************************************)
Points == [x : FieldElements, y : FieldElements]

Pt(x, y) == [x |-> x, y |-> y]

gen_zero[pt \in Points] ==
    Pt(FieldNew(0, pt.x.modulo), FieldNew(0, pt.x.modulo))

\* Group::get_y: a square root of x^3 + a*x + b.
get_y[x \in FieldElements] ==
    sqrt[FAddInt[FAdd[pow_u[x, 3], FMulInt[x, CurveA]], CurveB]]

is_on_curve[pt \in Points] ==
    pow_u[pt.y, 2]
      = FAddInt[FAdd[pow_u[pt.x, 3], FMulInt[pt.x, CurveA]], CurveB]

is_on_infinity[pt \in Points] == is_infinity[pt.x] \/ is_infinity[pt.y]

get_slope[a \in Points, b \in Points] ==
    IF a.x # b.x
    THEN FDiv[FSub[a.y, b.y], FSub[a.x, b.x]]
    ELSE FDiv[FAddInt[FMulInt[pow_u[a.x, 2], 3], CurveA], FMulInt[a.y, 2]]

\* impl AddAssign<&Point> for Point: the value of self afterwards.
add_assign[self \in Points, other \in Points] ==
    IF is_infinity[self.x] THEN other
    ELSE IF is_infinity[other.x] THEN self
    ELSE IF (self.x = other.x /\ self.y # other.y)
            \/ (self = other /\ is_zero[self.y])
    THEN Pt(infinity(self.x.modulo), infinity(self.x.modulo))
    ELSE LET m == get_slope[self, other]
             x == FSub[FSub[pow_u[m, 2], self.x], other.x]
         IN  Pt(x, FSub[FMul[m, FSub[self.x, x]], self.y])

\* The locals of the double-and-add loop of mul_impl_point!.
MulStates == [result : Points, adding : Points, other : Int]

\* One round of the double-and-add loop of mul_impl_point!.
MulRound[st \in MulStates] ==
    [result |-> IF IsOdd[st.other] THEN add_assign[st.result, st.adding]
                ELSE st.result,
     adding |-> add_assign[st.adding, st.adding],
     other  |-> Shr1[st.other]]

MulStart(pt, k) == [result |-> gen_zero[pt], adding |-> pt, other |-> k]

MulLoop[st \in MulStates] ==
    IF st.other = 0 THEN st.result ELSE MulLoop[MulRound[st]]

\* Mul<$t> for Point, for a scalar k >= 0 (the loop ends).
PointMul[pt \in Points, k \in Int] == MulLoop[MulStart(pt, k)]

(***************************************************************************)
(* Secp256k1 context.                                                      *)
(***************************************************************************)
generator == Pt(FieldNew(Gx, P), FieldNew(Gy, P))

(***************************************************************************)
(* A reference for the group, independent of the code above: the points of *)
(* the curve listed by their discrete logarithm.  RefG[k] is k times the   *)
(* generator by the textbook chord-and-tangent law, "inf" being the        *)
(* identity; it is used only to state properties.                          *)
(***************************************************************************)
RefInf == [inf |-> TRUE, x |-> 0, y |-> 0]

RefPt(x, y) == [inf |-> FALSE, x |-> x, y |-> y]

RefInv(a) == CHOOSE i \in 0..(P - 1) : (a * i) % P = 1

RefAdd(a, b) ==
    IF a.inf THEN b
    ELSE IF b.inf THEN a
    ELSE IF a.x = b.x /\ (a.y + b.y) % P = 0 THEN RefInf
    ELSE LET m == IF a.x = b.x
                  THEN (3 * a.x * a.x * RefInv((2 * a.y) % P)) % P
                  ELSE ((a.y - b.y) * RefInv((a.x - b.x) % P)) % P
             x == (m * m - a.x - b.x) % P
         IN  RefPt(x, (m * (a.x - x) - a.y) % P)

RECURSIVE RefMul(_, _)
RefMul(k, a) ==
    IF k = 0 THEN RefInf
    ELSE LET h == RefMul(k \div 2, a)
             d == RefAdd(h, h)
         IN  IF k % 2 = 1 THEN RefAdd(d, a) ELSE d

RefG == [k \in 0..(N - 1) |-> RefMul(k, RefPt(Gx, Gy))]

\* The reference point of a model point: infinity is (0, 0) in the code.
RefOf(pt) ==
    IF pt.x.num % P = 0 /\ pt.y.num % P = 0 THEN RefInf
    ELSE RefPt(pt.x.num % P, pt.y.num % P)

RefLog(rp) == CHOOSE k \in 0..(N - 1) : RefG[k] = rp

RefInvN(a) == CHOOSE i \in 0..(N - 1) : (a * i) % N = 1

(***************************************************************************)
(* Jacobi symbol  (src/jacobi.rs).                                         *)
(***************************************************************************)
JacobiValues == {"One", "MinusOne", "Zero"}

\* Jacobi::flip
flip[res \in JacobiValues] ==
    IF res = "One" THEN "MinusOne" ELSE IF res = "MinusOne" THEN "One" ELSE res

\* The inner loop: halve the numerator while it is even, flipping the sign
\* each time the denominator is 3 or 5 mod 8.
StripTwos[numerator \in Int, denominator \in Int, res \in JacobiValues] ==
    IF ~IsOdd[numerator]
    THEN StripTwos[numerator \div 2, denominator,
                   IF ModFloor[denominator, 8] \in {3, 5} THEN flip[res]
                   ELSE res]
    ELSE [numerator |-> numerator, res |-> res]

\* The outer loop of jacobi_symbol, for a numerator >= 0.
JacobiLoop[numerator \in Int, denominator \in Int, res \in JacobiValues] ==
    IF numerator # 0
    THEN LET st  == StripTwos[numerator, denominator, res]
             \* mem::swap(&mut numerator, &mut denominator)
             num == denominator
             den == st.numerator
             num_mod == ModFloor[num, 4]
             res2 == IF num_mod = 3 /\ ModFloor[den, 4] = num_mod
                     THEN flip[st.res] ELSE st.res
         IN  JacobiLoop[Rem[num, den], den, res2]
    ELSE IF denominator = 1 THEN res ELSE "Zero"

jacobi_symbol[numerator \in Int, denominator \in Int] ==
    JacobiLoop[numerator, denominator, "One"]

(***************************************************************************)
(* State.                                                                  *)
(***************************************************************************)
VARIABLES
    pc,     \* "idle", or where a call that takes several steps stands
    op,     \* the operation that produced this state
    priv,   \* PrivateKey.scalar in hand
    pub,    \* PublicKey.point in hand
    msg,    \* the 32-byte message digest (get_hashed_message_if's result)
    nonce,  \* the nonce k the signer used
    sig,    \* Signature { r, s } in hand, two byte arrays
    signed, \* whether sig was produced by signing msg with priv
    chal,   \* the last get_e query and the digest SHA-256 gave for it
    lhs,    \* s.num * G, the operand verify_schnorr_raw computes first
    mul,    \* the double-and-add loop in progress: result, adding, other
    buf,    \* the bytes an encoder returned or a caller handed to a decoder
    key,    \* the point of the PublicKey a decoder returned
    ret,    \* what the operation returned: "true", "false", "ok", "abort", ...
    peer,   \* the scalar of the second PrivateKey of a key agreement
    shared, \* the two secrets ecdh returned: a.ecdh(B) and b.ecdh(A)
    drbg,   \* HmacSha256Drbg { k, v } of the call of deterministic_k_ecdsa
    cand,   \* the nonce buffer generate filled last, the candidate
    tries,  \* how many candidates the call has drawn
    oracle, \* the digests drawn so far, as <<input, word>> pairs
    prev,   \* the key, message and signature of the previous signing call
    tpc,    \* where each thread stands in get_context
    once,   \* the state of INIT_CONTEXT
    ctx,    \* the static CONTEXT
    inits,  \* how many times Secp256k1::new (Default::default) has run
    got,    \* what get_context returned to each thread
    args,   \* the operands handed to a field, point or Jacobi operation
    res     \* what that operation returned

coreVars ==
    <<pc, op, priv, pub, msg, nonce, sig, signed, chal, lhs, mul, buf, key, ret>>

coreVarsButOp ==
    <<pc, priv, pub, msg, nonce, sig, signed, chal, lhs, mul, buf, key, ret>>

ecdhVars == <<peer, shared>>

nonceVars == <<drbg, cand, tries, oracle, prev>>

ctxVars == <<tpc, once, ctx, inits, got>>

pureVars == <<args, res>>

extraVars == <<ecdhVars, nonceVars, ctxVars, pureVars>>

vars == <<coreVars, extraVars>>

(***************************************************************************)
(* Bounds of the inputs.                                                   *)
(***************************************************************************)
MaxKey == 3
MaxDigest == 2
MaxSigWord == 12
MaxNonceDigest == 4

MaxWord == Power[ByteBase, ScalarLen] - 1

\* Private scalars d with 1 <= d < N.
Keys == (1..MaxKey) \cup {N - 1}

\* Values of a 32-byte digest: small ones, the ones around N, the largest.
DigestWords == (0..MaxDigest) \cup {N - 1, N, N + 1, MaxWord}

Digests == {to_fixed_be[w, ScalarLen] : w \in DigestWords}

\* Values of r and s in a signature given to verify.
SigWords == (0..MaxSigWord) \cup ((N - 1)..(N + 2)) \cup {P - 1}

\* Digests SHA-256 may give for the Schnorr nonce and for the challenge.
NonceDigestWords == (0..MaxNonceDigest) \cup {N, N + 1}

ChalDigestWords == (0..MaxDigest) \cup {N - 1, N, N + 1}

\* Values of r and s in a Schnorr signature given to verify_schnorr: for r,
\* the x of the generator and of the small keys, and values no x can take.
SchnorrRWords ==
    {0, N, P} \cup {PointMul[generator, d].x.num : d \in 1..MaxKey}

SchnorrSWords == (0..MaxDigest) \cup {N, N + 1}

NoSig == [r |-> <<>>, s |-> <<>>]

NoMsg == <<>>

NoChal == [q |-> <<>>, e |-> <<>>]

MaxThreads == 4

Threads == 1..MaxThreads

\* CONTEXT: Option<Secp256k1> = None; id numbers the call of Secp256k1::new
\* that built the value.
NoContext == [tag |-> "None", id |-> 0]

NoRef == [tag |-> "none", id |-> 0]

NoDrbg == [k |-> <<>>, v |-> <<>>]

NoPrev == [priv |-> 0, msg |-> NoMsg, sig |-> NoSig]

NoMul == [result |-> generator, adding |-> generator, other |-> 0]

(***************************************************************************)
(* Keys and ECDSA  (src/secp256k1.rs).                                     *)
(***************************************************************************)
\* Scalar::new: the slice right-aligned in a zeroed [u8; 32].
ScalarNew(slice) ==
    [i \in 1..ScalarLen |->
        IF i <= ScalarLen - Len(slice) THEN 0
        ELSE slice[i - (ScalarLen - Len(slice))]]

\* Signature::new
SignatureNew(r, s) == [r |-> ScalarNew(r), s |-> ScalarNew(s)]

\* PrivateKey::generate_pubkey
generate_pubkey(d) == PointMul[generator, d]

\* A compressed encoding that drops the parity of y: the prefix is always 2.
compressed_even(pt) == <<2>> \o serialize_num[pt.x]

\* PublicKey::compressed
compressed(pt) ==
    <<IF is_even[pt.y] THEN 2 ELSE 3>> \o serialize_num[pt.x]

\* PublicKey::uncompressed
uncompressed(pt) == <<4>> \o serialize_num[pt.x] \o serialize_num[pt.y]

\* PrivateKey::deterministic_k_ecdsa: the loop redraws a block while it is
\* zero or >= order, so what it returns is a block in [1, N), as a
\* FieldElement of modulus N.  The HMAC-DRBG that draws the blocks is a
\* deterministic function of (d, m); the model lets it be any such function.
deterministic_k_ecdsa_range == {k \in 0..MaxWord : ~(k >= N \/ k = 0)}

\* A sign_raw that returns s as computed, in the upper half too.
sign_raw_high_s(d, k, z) ==
    LET k_point == PointMul[generator, k.num]
        r == round_mod[mod_num[FE(k_point.x.num, N)]]
        s == FDiv[FAdd[z, FMulInt[r, d]], k]
    IN  IF is_zero[r] \/ is_zero[s]
        THEN [abort |-> TRUE, sig |-> NoSig]
        ELSE [abort |-> FALSE,
              sig |-> SignatureNew(serialize_num[r], serialize_num[s])]

\* A sign_raw that returns the signature without looking for a zero.
sign_raw_unchecked(d, k, z) ==
    LET k_point == PointMul[generator, k.num]
        r  == round_mod[mod_num[FE(k_point.x.num, N)]]
        s0 == FDiv[FAdd[z, FMulInt[r, d]], k]
        s  == IF s0.num > Shr1[N] THEN IntSubF[N, s0] ELSE s0
    IN  [abort |-> FALSE,
         sig |-> SignatureNew(serialize_num[r], serialize_num[s])]

\* PrivateKey::sign_raw: the signature, or an abort (unimplemented!()).
sign_raw(d, k, z) ==
    LET k_point == PointMul[generator, k.num]
        r  == round_mod[mod_num[FE(k_point.x.num, N)]]
        s0 == FDiv[FAdd[z, FMulInt[r, d]], k]
        s  == IF s0.num > Shr1[N] THEN IntSubF[N, s0] ELSE s0
    IN  IF is_zero[r] \/ is_zero[s]
        THEN [abort |-> TRUE, sig |-> NoSig]
        ELSE [abort |-> FALSE,
              sig |-> SignatureNew(serialize_num[r], serialize_num[s])]

\* PrivateKey::sign on the digest m with the nonce k.
sign(d, m, k) == sign_raw(d, FE(k, N), from_serialize[m, N])

\* PublicKey::verify_raw
verify_raw(pk, z, r, s) ==
    LET u1 == FDiv[z, s]
        u2 == FDiv[r, s]
        point == add_assign[PointMul[generator, u1.num], PointMul[pk, u2.num]]
    IN  point.x.num = r.num

\* PublicKey::verify on the digest m.
verify(pk, m, sg) ==
    verify_raw(pk, from_serialize[m, N], from_serialize[sg.r, N],
               from_serialize[sg.s, N])

\* Signature::parse: a 64-byte buffer split in two.
SignatureParse(bytes) ==
    [r |-> ScalarNew(SubSeq(bytes, 1, ScalarLen)),
     s |-> ScalarNew(SubSeq(bytes, ScalarLen + 1, 2 * ScalarLen))]

BoolStr(b) == IF b THEN "true" ELSE "false"

(***************************************************************************)
(* Schnorr  (src/secp256k1.rs).  SHA-256 is a function the model does not  *)
(* compute: a digest is drawn from the sampled digests, and the challenge  *)
(* query is remembered in chal so that the same query gets the same digest.*)
(***************************************************************************)
\* HashDigest::new() fed with data, then result(): SHA-256 as an injective
\* constructor, the data between the marks 256 and 257, which no byte equals.
HashDigest(data) == <<256>> \o data \o <<257>>

\* PrivateKey::serialize
serialize(d) == to_fixed_be[d, ScalarLen]

\* The bytes deterministic_k_schnorr feeds to SHA-256: d, then m.
schnorr_k_query(d, m) == HashDigest(serialize(d) \o m)

\* The bytes get_e feeds to SHA-256: R.x, the compressed key, the digest m.
get_e_query(xR, pk, m) == serialize_num[xR] \o compressed(pk) \o m

\* The digests SHA-256 may give for the query q, given what it gave before.
get_e_digests(q) ==
    IF chal.q = q THEN {chal.e}
    ELSE {to_fixed_be[w, ScalarLen] : w \in ChalDigestWords}

\* PrivateKey::deterministic_k_schnorr, kd being SHA-256(d || m).
deterministic_k_schnorr(kd) == mod_num[from_serialize[kd, N]]

\* PrivateKey::sign_schnorr and sign_schnorr_raw, ed being get_e's digest.
sign_schnorr(d, kd, ed) ==
    LET k0 == deterministic_k_schnorr(kd)
        R  == PointMul[generator, k0.num]
        k  == IF jacobi_symbol[R.y.num, P] # "One" THEN IntSubF[N, k0] ELSE k0
        e  == from_serialize[ed, N]
        s  == FAdd[k, FMulInt[e, d]]
    IN  IF is_zero[k0]
        THEN [abort |-> TRUE, sig |-> NoSig, k |-> 0, xR |-> k0]
        ELSE [abort |-> FALSE,
              sig |-> SignatureNew(serialize_num[R.x], serialize_num[s]),
              k |-> k.num, xR |-> R.x]

\* The tail of PublicKey::verify_schnorr_raw, once s.num * G (sPoint) and
\* e.num * &self.point (ePoint) are computed.
verify_schnorr_tail(sPoint, ePoint, r) ==
    LET R == add_assign[sPoint, ePoint]
    IN  IF is_on_infinity[R] THEN FALSE
        ELSE IF jacobi_symbol[R.y.num, P] # "One" THEN FALSE
        ELSE R.x.num = r.num

(***************************************************************************)
(* SEC1 and DER decoding  (src/secp256k1.rs).  A decoder's outcome is a    *)
(* record: abort says the call panicked, err that it returned Err.         *)
(***************************************************************************)
NoKey == gen_zero[generator]

\* PublicKey::from_uncompressed on a buffer of 1 + 2 * ScalarLen bytes; on a
\* shorter slice the index ser[0] or the ranges ser[1..33], ser[33..65]
\* panic.
from_uncompressed(ser) ==
    LET x == from_serialize[SubSeq(ser, 2, ScalarLen + 1), P]
        y == from_serialize[SubSeq(ser, ScalarLen + 2, 2 * ScalarLen + 1), P]
        point == Pt(x, y)
    IN  IF Len(ser) = 0 \/ ser[1] # 4
        THEN [abort |-> TRUE, err |-> FALSE, key |-> NoKey]
        ELSE IF Len(ser) < 2 * ScalarLen + 1
        THEN [abort |-> TRUE, err |-> FALSE, key |-> NoKey]
        ELSE IF ~is_on_curve[point]
        THEN [abort |-> TRUE, err |-> FALSE, key |-> NoKey]
        ELSE [abort |-> FALSE, err |-> FALSE, key |-> point]

\* A from_compressed that keeps the square root it computed, whatever the
\* prefix asks for.
from_compressed_unreflected(ser) ==
    LET x == from_serialize[SubSeq(ser, 2, ScalarLen + 1), P]
        point == Pt(x, get_y[x])
    IN  IF ser[1] # 2 /\ ser[1] # 3
        THEN [abort |-> FALSE, err |-> TRUE, key |-> NoKey]
        ELSE IF ~is_on_curve[point]
        THEN [abort |-> FALSE, err |-> TRUE, key |-> NoKey]
        ELSE [abort |-> FALSE, err |-> FALSE, key |-> point]

\* PublicKey::from_compressed on a buffer of 1 + ScalarLen bytes.
from_compressed(ser) ==
    LET x == from_serialize[SubSeq(ser, 2, ScalarLen + 1), P]
        y0 == get_y[x]
        even == is_even[y0]
        y == IF (ser[1] = 2 /\ ~even) \/ (ser[1] = 3 /\ even)
             THEN reflect[y0] ELSE y0
        point == Pt(x, y)
    IN  IF ~((ser[1] = 2 /\ ~even) \/ (ser[1] = 3 /\ even))
           /\ ser[1] # 2 /\ ser[1] # 3
        THEN [abort |-> FALSE, err |-> TRUE, key |-> NoKey]
        ELSE IF ~is_on_curve[point]
        THEN [abort |-> FALSE, err |-> TRUE, key |-> NoKey]
        ELSE [abort |-> FALSE, err |-> FALSE, key |-> point]

\* Signature::START and Signature::MARKER
START == 48
MARKER == 2

\* One INTEGER read without the case of a (ScalarLen + 1)-byte integer: the
\* leading zero is taken for a byte of the scalar.
parse_der_int_unpadded(der, pos) ==
    LET length == der[pos + 1]
    IN  IF pos > Len(der) \/ der[pos] # MARKER \/ pos + 1 > Len(der)
        THEN [abort |-> TRUE, bytes |-> <<>>, length |-> 0, next |-> pos]
        ELSE IF length > ScalarLen \/ pos + 1 + length > Len(der)
        THEN [abort |-> TRUE, bytes |-> <<>>, length |-> 0, next |-> pos]
        ELSE [abort |-> FALSE,
              bytes |-> ScalarNew(SubSeq(der, pos + 2, pos + 1 + length)),
              length |-> length, next |-> pos + 2 + length]

\* One INTEGER of parse_der, read from position pos: the marker, the length,
\* the leading zero of a (ScalarLen + 1)-byte integer, the bytes into the
\* right end of a zeroed array.  take and read_exact panic at the end of the
\* input, and the slice r[32 - r_length..] panics when r_length is too big.
parse_der_int(der, pos) ==
    LET length == der[pos + 1]
        padded == length = ScalarLen + 1
        from   == IF padded THEN pos + 3 ELSE pos + 2
        count  == IF padded THEN length - 1 ELSE length
    IN  IF pos > Len(der) \/ der[pos] # MARKER \/ pos + 1 > Len(der)
        THEN [abort |-> TRUE, bytes |-> <<>>, length |-> 0, next |-> pos]
        ELSE IF padded /\ (pos + 2 > Len(der) \/ der[pos + 2] # 0)
        THEN [abort |-> TRUE, bytes |-> <<>>, length |-> 0, next |-> pos]
        ELSE IF count > ScalarLen \/ from + count - 1 > Len(der)
        THEN [abort |-> TRUE, bytes |-> <<>>, length |-> 0, next |-> pos]
        ELSE [abort |-> FALSE,
              bytes |-> ScalarNew(SubSeq(der, from, from + count - 1)),
              length |-> length, next |-> from + count]

\* Signature::parse_der
parse_der(der) ==
    LET data_length == der[2]
        r == parse_der_int(der, 3)
        s == parse_der_int(der, r.next)
        sum_size == 4 + r.length + s.length
    IN  IF Len(der) < 2 \/ der[1] # START
        THEN [abort |-> TRUE, sig |-> NoSig]
        ELSE IF r.abort THEN [abort |-> TRUE, sig |-> NoSig]
        ELSE IF s.abort THEN [abort |-> TRUE, sig |-> NoSig]
        ELSE IF data_length # sum_size THEN [abort |-> TRUE, sig |-> NoSig]
        ELSE [abort |-> FALSE, sig |-> [r |-> r.bytes, s |-> s.bytes]]

\* The position of the first non-zero byte at or after i, 0 when there is
\* none (Iterator::position returning None).
first_nonzero[a \in Seq(Byte), i \in Int] ==
    IF i > Len(a) THEN 0
    ELSE IF a[i] # 0 THEN i
    ELSE first_nonzero[a, i + 1]

\* An INTEGER cut at its first non-zero byte, whatever that byte is.
serialize_der_int_unpadded(scalar) ==
    LET a     == <<0>> \o scalar
        first == first_nonzero[a, 1]
    IN  IF first = 0 THEN [abort |-> TRUE, bytes |-> <<>>]
        ELSE [abort |-> FALSE, bytes |-> SubSeq(a, first, Len(a))]

\* One INTEGER of serialize_der: the scalar under a leading zero byte
\* (generate_33_leading_zeros), cut at its first non-zero byte, one byte
\* earlier when that byte is >= 128.  unwrap() panics on an all-zero scalar.
serialize_der_int(scalar) ==
    LET a     == <<0>> \o scalar
        first == first_nonzero[a, 1]
        start == IF a[first] >= 128 THEN first - 1 ELSE first
    IN  IF first = 0 THEN [abort |-> TRUE, bytes |-> <<>>]
        ELSE [abort |-> FALSE, bytes |-> SubSeq(a, start, Len(a))]

\* Signature::serialize_der
serialize_der(sg) ==
    LET r == serialize_der_int(sg.r)
        s == serialize_der_int(sg.s)
        data_length == Len(r.bytes) + Len(s.bytes) + 4
    IN  IF r.abort \/ s.abort THEN [abort |-> TRUE, bytes |-> <<>>]
        ELSE [abort |-> FALSE,
              bytes |-> <<START, data_length>>
                        \o <<MARKER, Len(r.bytes)>> \o r.bytes
                        \o <<MARKER, Len(s.bytes)>> \o s.bytes]

(***************************************************************************)
(* The buffers a caller hands to the decoders.                             *)
(***************************************************************************)
MaxEncodedX == 430
MaxTrail == 2

\* Private scalars whose public key is encoded and decoded again.
CodecKeys == 1..(N - 1)

\* Compressed keys: the two prefixes and three others, every x to MaxEncodedX.
CompressedInputs ==
    {<<prefix>> \o to_fixed_be[x, ScalarLen] :
        prefix \in {0, 2, 3, 4, 5}, x \in 0..MaxEncodedX}

\* Uncompressed keys: the points of the small keys, each coordinate as it is,
\* off by one and off by P, under the prefix 4 and two others.
UncompressedInputs ==
    {<<prefix>> \o to_fixed_be[PointMul[generator, d].x.num + dx, ScalarLen]
                \o to_fixed_be[PointMul[generator, d].y.num + dy, ScalarLen] :
        prefix \in {0, 4, 6}, d \in Keys, dx \in {0, 1, P}, dy \in {0, 1, P}}

\* The contents of a DER INTEGER: none, short, full width, padded, too long.
DerInts ==
    {<<>>, <<1>>, <<128>>, <<1, 2>>, <<0, 128>>, <<0, 1, 2>>, <<1, 1, 2>>,
     <<1, 2, 3, 4>>}

\* A DER signature with the tag, the markers and the declared length given.
DerBuild(tag, declared, m1, rb, m2, sb) ==
    <<tag, declared, m1, Len(rb)>> \o rb \o <<m2, Len(sb)>> \o sb

DerWellFormed ==
    {DerBuild(START, Len(rb) + Len(sb) + 4, MARKER, rb, MARKER, sb) :
        rb \in DerInts, sb \in DerInts}

\* Values of r and s of a signature to encode: every shape of the leading
\* bytes (none, one byte, full width; high bit clear or set) and zero.
DerSigWords ==
    {0, 1, 127, 128, 255, ByteBase, 128 * ByteBase - 1, 128 * ByteBase, MaxWord}

\* Well-formed signatures, and signatures with one thing wrong: the tag, a
\* marker, the declared length, bytes missing at the end, bytes after the end.
DerInputs ==
    DerWellFormed
    \cup {DerBuild(tag, Len(rb) + Len(sb) + 4 + off, m1, rb, m2, sb) :
            tag \in {START, START + 1}, off \in {-1, 0, 1},
            m1 \in {MARKER, MARKER + 1}, m2 \in {MARKER, MARKER + 1},
            rb \in DerInts, sb \in DerInts}
    \cup {SubSeq(w, 1, Len(w) - cut) : w \in DerWellFormed, cut \in 1..MaxTrail}
    \cup {w \o [i \in 1..n |-> 7] : w \in DerWellFormed, n \in 1..MaxTrail}

(***************************************************************************)
(* Actions.                                                                *)
(***************************************************************************)
Init ==
    /\ pc = "idle"
    /\ op = "init"
    /\ priv = 0
    /\ pub = generator
    /\ msg = NoMsg
    /\ nonce = 0
    /\ sig = NoSig
    /\ signed = FALSE
    /\ chal = NoChal
    /\ lhs = gen_zero[generator]
    /\ mul = NoMul
    /\ buf = <<>>
    /\ key = gen_zero[generator]
    /\ ret = "none"
    /\ peer = 0
    /\ shared = <<>>
    /\ drbg = NoDrbg
    /\ cand = <<>>
    /\ tries = 0
    /\ oracle = {}
    /\ prev = NoPrev
    /\ tpc = [t \in Threads |-> "start"]
    /\ once = "incomplete"
    /\ ctx = NoContext
    /\ inits = 0
    /\ got = [t \in Threads |-> NoRef]
    /\ args = <<>>
    /\ res = <<>>

\* PrivateKey::new(d).generate_pubkey()
KeyGen(K) ==
    /\ op = "init"
    /\ \E d \in K :
        /\ priv' = d
        /\ pub' = generate_pubkey(d)
    /\ op' = "keygen"
    /\ ret' = "ok"
    /\ UNCHANGED extraVars
    /\ UNCHANGED <<buf, key, lhs, pc, msg, nonce, sig, signed, chal, mul>>

\* PrivateKey::sign(msg, to_hash) of the key in hand.
Sign ==
    /\ op = "keygen"
    /\ \E m \in Digests, k \in deterministic_k_ecdsa_range :
        LET out == sign(priv, m, k)
        IN  /\ msg' = m
            /\ nonce' = k
            /\ sig' = out.sig
            /\ signed' = ~out.abort
            /\ ret' = IF out.abort THEN "abort" ELSE "signed"
    /\ op' = "sign"
    /\ UNCHANGED extraVars
    /\ UNCHANGED <<buf, key, lhs, pc, priv, pub, chal, mul>>

\* Signature::parse of a caller's 64 bytes, to be verified against a digest.
ParseSig ==
    /\ op = "keygen"
    /\ \E m \in Digests, r \in SigWords, s \in SigWords :
        /\ msg' = m
        /\ sig' = SignatureParse(to_fixed_be[r, ScalarLen]
                                 \o to_fixed_be[s, ScalarLen])
    /\ signed' = FALSE
    /\ op' = "parse_sig"
    /\ ret' = "ok"
    /\ UNCHANGED extraVars
    /\ UNCHANGED <<buf, key, lhs, pc, priv, pub, nonce, chal, mul>>

\* PublicKey::verify(msg, sig, to_hash) of the signature in hand.
Verify ==
    /\ \/ op = "sign" /\ ret = "signed"
       \/ op = "parse_sig"
    /\ ret' = BoolStr(verify(pub, msg, sig))
    /\ op' = "verify"
    /\ UNCHANGED extraVars
    /\ UNCHANGED <<buf, key, lhs, pc, priv, pub, msg, nonce, sig, signed, chal,
                   mul>>

\* PrivateKey::sign_schnorr(msg, to_hash) of the key in hand.
SignSchnorr ==
    /\ op = "keygen"
    /\ \E m \in {to_fixed_be[0, ScalarLen]},
          kd \in NonceDigestWords, ed \in ChalDigestWords :
        LET out == sign_schnorr(priv, to_fixed_be[kd, ScalarLen],
                                to_fixed_be[ed, ScalarLen])
        IN  /\ msg' = m
            /\ nonce' = out.k
            /\ sig' = out.sig
            /\ signed' = ~out.abort
            /\ ret' = IF out.abort THEN "abort" ELSE "signed"
            /\ chal' = IF out.abort THEN NoChal
                       ELSE [q |-> get_e_query(out.xR, pub, m),
                             e |-> to_fixed_be[ed, ScalarLen]]
            /\ oracle' = oracle \cup {<<schnorr_k_query(priv, m), kd>>}
    /\ op' = "sign_schnorr"
    /\ UNCHANGED <<drbg, cand, tries, prev, ecdhVars, ctxVars, pureVars>>
    /\ UNCHANGED <<buf, key, lhs, pc, priv, pub, mul>>

\* SchnorrSignature::parse of a caller's 64 bytes.
ParseSchnorrSig ==
    /\ op = "keygen"
    /\ \E r \in SchnorrRWords, s \in SchnorrSWords :
        sig' = SignatureParse(to_fixed_be[r, ScalarLen]
                              \o to_fixed_be[s, ScalarLen])
    /\ msg' = to_fixed_be[0, ScalarLen]
    /\ signed' = FALSE
    /\ op' = "parse_schnorr_sig"
    /\ ret' = "ok"
    /\ UNCHANGED extraVars
    /\ UNCHANGED <<buf, key, lhs, pc, priv, pub, nonce, chal, mul>>

\* PublicKey::verify_schnorr up to the loop of e.num * &self.point: the
\* challenge is fetched and reflected, s.num * G is computed, and the loop
\* is set up.
VerifySchnorrBegin ==
    /\ pc = "idle"
    /\ \/ op = "sign_schnorr" /\ ret = "signed"
       \/ op = "parse_schnorr_sig"
    /\ LET r == from_serialize[sig.r, N]
           q == get_e_query(r, pub, msg)
       IN  \E ed \in get_e_digests(q) :
             /\ chal' = [q |-> q, e |-> ed]
             /\ mul' = MulStart(pub, reflect[from_serialize[ed, N]].num)
    /\ lhs' = PointMul[generator, from_serialize[sig.s, N].num]
    /\ pc' = "vs_mul"
    /\ op' = "verify_schnorr"
    /\ ret' = "pending"
    /\ UNCHANGED extraVars
    /\ UNCHANGED <<buf, key, priv, pub, msg, nonce, sig, signed>>

\* One round of `while !is_zero(&self)` in e.num * &self.point.
VerifySchnorrMulRound ==
    /\ pc = "vs_mul"
    /\ mul.other # 0
    /\ mul' = MulRound[mul]
    /\ UNCHANGED extraVars
    /\ UNCHANGED <<buf, key, lhs, pc, op, priv, pub, msg, nonce, sig, signed,
                   chal, ret>>

\* The loop is over: the rest of verify_schnorr_raw.
VerifySchnorrEnd ==
    /\ pc = "vs_mul"
    /\ mul.other = 0
    /\ ret' = BoolStr(verify_schnorr_tail(lhs, mul.result,
                                          from_serialize[sig.r, N]))
    /\ pc' = "idle"
    /\ UNCHANGED extraVars
    /\ UNCHANGED <<buf, key, lhs, op, priv, pub, msg, nonce, sig, signed, chal,
                   mul>>

\* PublicKey::compressed of the key in hand.
Compress ==
    /\ op = "keygen"
    /\ buf' = compressed(pub)
    /\ op' = "compressed"
    /\ ret' = "ok"
    /\ UNCHANGED extraVars
    /\ UNCHANGED <<pc, priv, pub, msg, nonce, sig, signed, chal, lhs, mul, key>>

\* PublicKey::uncompressed of the key in hand.
Uncompress ==
    /\ op = "keygen"
    /\ buf' = uncompressed(pub)
    /\ op' = "uncompressed"
    /\ ret' = "ok"
    /\ UNCHANGED extraVars
    /\ UNCHANGED <<pc, priv, pub, msg, nonce, sig, signed, chal, lhs, mul, key>>

\* A caller comes with bytes of its own: a compressed key, an uncompressed
\* key or a DER signature.
Input ==
    /\ op = "init"
    /\ \/ buf' \in CompressedInputs /\ op' = "input_compressed"
       \/ buf' \in UncompressedInputs /\ op' = "input_uncompressed"
       \/ buf' \in DerInputs /\ op' = "input_der"
    /\ ret' = "ok"
    /\ UNCHANGED extraVars
    /\ UNCHANGED <<pc, priv, pub, msg, nonce, sig, signed, chal, lhs, mul, key>>

\* PublicKey::from_compressed(&buf)
FromCompressed ==
    /\ op \in {"compressed", "input_compressed"}
    /\ LET out == from_compressed(buf)
       IN  /\ key' = out.key
           /\ ret' = IF out.err THEN "err" ELSE "ok"
    /\ op' = "from_compressed"
    /\ UNCHANGED extraVars
    /\ UNCHANGED <<pc, priv, pub, msg, nonce, sig, signed, chal, lhs, mul, buf>>

\* PublicKey::from_uncompressed(&buf)
FromUncompressed ==
    /\ op \in {"uncompressed", "input_uncompressed"}
    /\ LET out == from_uncompressed(buf)
       IN  /\ key' = out.key
           /\ ret' = IF out.abort THEN "abort" ELSE "ok"
    /\ op' = "from_uncompressed"
    /\ UNCHANGED extraVars
    /\ UNCHANGED <<pc, priv, pub, msg, nonce, sig, signed, chal, lhs, mul, buf>>

\* A caller comes with the 64 bytes of a signature to encode.
InputSig ==
    /\ op = "init"
    /\ \E r \in DerSigWords, s \in DerSigWords :
        sig' = SignatureParse(to_fixed_be[r, ScalarLen]
                              \o to_fixed_be[s, ScalarLen])
    /\ signed' = FALSE
    /\ op' = "input_sig"
    /\ ret' = "ok"
    /\ UNCHANGED extraVars
    /\ UNCHANGED <<pc, priv, pub, msg, nonce, chal, lhs, mul, buf, key>>

\* Signature::serialize_der of the signature in hand.
SerializeDer ==
    /\ \/ op = "sign" /\ ret = "signed"
       \/ op = "input_sig"
    /\ LET out == serialize_der(sig)
       IN  /\ buf' = out.bytes
           /\ ret' = IF out.abort THEN "abort" ELSE "ok"
    /\ op' = "serialize_der"
    /\ UNCHANGED extraVars
    /\ UNCHANGED <<pc, priv, pub, msg, nonce, sig, signed, chal, lhs, mul, key>>

\* Signature::parse_der(&buf)
ParseDer ==
    /\ \/ op = "input_der"
       \/ op = "serialize_der" /\ ret = "ok"
    /\ LET out == parse_der(buf)
       IN  /\ sig' = out.sig
           /\ ret' = IF out.abort THEN "abort" ELSE "ok"
    /\ op' = "parse_der"
    /\ UNCHANGED extraVars
    /\ UNCHANGED <<pc, priv, pub, msg, nonce, signed, chal, lhs, mul, buf, key>>

NextEcdsa == KeyGen(Keys) \/ Sign \/ ParseSig \/ Verify

SpecEcdsa == Init /\ [][NextEcdsa]_vars

NextSchnorr ==
    \/ KeyGen(Keys)
    \/ SignSchnorr
    \/ ParseSchnorrSig
    \/ VerifySchnorrBegin
    \/ VerifySchnorrMulRound
    \/ VerifySchnorrEnd

SpecSchnorr == Init /\ [][NextSchnorr]_vars

NextCodec ==
    \/ KeyGen(CodecKeys)
    \/ Compress
    \/ Uncompress
    \/ Input
    \/ FromCompressed
    \/ FromUncompressed
    \/ ParseDer

SpecCodec == Init /\ [][NextCodec]_vars

NextDer ==
    \/ KeyGen(Keys)
    \/ Sign
    \/ InputSig
    \/ SerializeDer
    \/ ParseDer

SpecDer == Init /\ [][NextDer]_vars

\* A call that has begun keeps running: the thread is not starved.
SpecSchnorrFair ==
    /\ SpecSchnorr
    /\ WF_vars(VerifySchnorrBegin)
    /\ WF_vars(VerifySchnorrMulRound)
    /\ WF_vars(VerifySchnorrEnd)

(***************************************************************************)
(* ECDSA properties.                                                       *)
(***************************************************************************)
RNum == from_bytes_be[sig.r]

SNum == from_bytes_be[sig.s]

\* The point u1*G + u2*Pubkey of textbook ECDSA, for s invertible mod N:
\* z is the digest reduced mod N, u1 = z/s mod N, u2 = r/s mod N.
RefEcdsaPoint ==
    LET z  == from_bytes_be[msg] % N
        w  == RefInvN(SNum % N)
        u1 == (z * w) % N
        u2 == ((RNum % N) * w) % N
    IN  RefG[(u1 + u2 * RefLog(RefOf(pub))) % N]

\* C1: a signature that sign returned for the key in hand verifies under the
\* public key derived from that key, on the message that was signed.
C1_SignThenVerify == (op = "verify" /\ signed) => ret = "true"

\* C2: verify returns false for every signature whose r or s is zero or is
\* not less than the group order.
C2_RejectsOutOfRange ==
    (op = "verify" /\ (RNum = 0 \/ SNum = 0 \/ RNum >= N \/ SNum >= N))
        => ret = "false"

\* C3: verify returns true exactly when the x-coordinate of u1*G + u2*Pubkey,
\* reduced mod N, equals r.
C3_AcceptIffXModN ==
    (op = "verify" /\ SNum % N # 0 /\ ~RefEcdsaPoint.inf)
        => (ret = "true" <=> RefEcdsaPoint.x % N = RNum)
\* What verify_raw decides: the x of the point, as it is, equals r.
EcdsaAcceptIffX ==
    (op = "verify" /\ SNum % N # 0 /\ ~RefEcdsaPoint.inf)
        => (ret = "true" <=> RefEcdsaPoint.x = RNum)

\* A signature whose nonce point has its x below N verifies.
EcdsaSignedBelowOrderAccepted ==
    (op = "verify" /\ signed /\ RefG[nonce].x < N) => ret = "true"

(***************************************************************************)
(* Schnorr properties, stated against the reference group.                 *)
(***************************************************************************)
\* Euler's criterion: y is a non-zero square modulo P.
RefIsSquare(y) == ModPow[y, (P - 1) \div 2, P] = 1

\* R' = s*G - e*Pubkey for the signature and the challenge in hand.
RefSchnorrPoint ==
    RefG[ModFloor[SNum - from_bytes_be[chal.e] * RefLog(RefOf(pub)), N]]

RefSchnorrAccept ==
    /\ ~RefSchnorrPoint.inf
    /\ RefIsSquare(RefSchnorrPoint.y)
    /\ RefSchnorrPoint.x = RNum

SchnorrReturned == op = "verify_schnorr" /\ pc = "idle"

\* C4: a Schnorr signature that sign_schnorr returned for the key and the
\* message in hand is verified, and the verification returns true, whichever
\* nonce branch the signer took.
C4_SchnorrSignThenVerify ==
    (op = "sign_schnorr" /\ signed) ~> (SchnorrReturned /\ ret = "true")

\* C5: a Schnorr verification that has begun returns, and returns true
\* exactly when R' = s*G - e*Pubkey is not infinity, R'.y is a square
\* modulo P and R'.x = r.
C5_SchnorrAcceptExactly ==
    (pc = "vs_mul") ~> (SchnorrReturned /\ ret = BoolStr(RefSchnorrAccept))

\* C6: a verification that has begun terminates with a boolean.
C6_VerifyTotal ==
    (pc = "vs_mul") ~> (SchnorrReturned /\ ret \in {"true", "false"})

\* What verify_schnorr returns, when it returns, is the reference's answer.
SchnorrReturnsReference ==
    SchnorrReturned => ret = BoolStr(RefSchnorrAccept)

\* A signed Schnorr signature, when its verification returns, is accepted.
SchnorrSignedAccepted ==
    (SchnorrReturned /\ signed) => ret = "true"

(***************************************************************************)
(* Decoder properties.                                                     *)
(***************************************************************************)
\* The number a compressed key encodes after its prefix byte.
EncodedX == from_bytes_be[SubSeq(buf, 2, ScalarLen + 1)]

\* y^2 = x^3 + 7 (mod P), computed on the integers.
RefOnCurve(x, y) == (y * y) % P = (((x * x) % P) * x + CurveB) % P

RefHasY(x) == \E y \in 0..(P - 1) : RefOnCurve(x, y)

RefInField(f) == 0 <= f.num /\ f.num < P

\* C7: from_uncompressed and parse_der hand a malformed buffer back to the
\* caller as a failure value: neither call aborts.
C7_TypedFailure ==
    op \in {"from_uncompressed", "parse_der"} => ret # "abort"

\* C8: from_compressed returns an error when the prefix is neither 2 nor 3
\* and when the encoded x has no y on the curve, and a key it returns Ok for
\* is on the curve with both coordinates in [0, P).
C8_FromCompressedChecked ==
    op = "from_compressed" =>
        /\ buf[1] \notin {2, 3} => ret = "err"
        /\ ~RefHasY(EncodedX) => ret = "err"
        /\ ret = "ok" => /\ RefOnCurve(key.x.num, key.y.num)
                         /\ RefInField(key.x)
                         /\ RefInField(key.y)

\* The part of C8 about rejection alone.
FromCompressedRejects ==
    op = "from_compressed" =>
        /\ buf[1] \notin {2, 3} => ret = "err"
        /\ ~RefHasY(EncodedX) => ret = "err"

\* C9: a buffer parse_der accepts is as long as its declared length says,
\* plus the two bytes of the header: nothing is missing, nothing follows.
C9_DerLengthChecked ==
    (op = "parse_der" /\ ret = "ok") => Len(buf) = buf[2] + 2

\* A truncated buffer is never accepted.
DerTruncatedRejected ==
    (op = "parse_der" /\ ret = "ok") => Len(buf) >= buf[2] + 2

\* C10: the compressed and the uncompressed encoding of the public key of a
\* private key d, 1 <= d < N, decode to that public key.
C10_Sec1RoundTrip ==
    /\ (op = "from_compressed" /\ priv # 0 /\ buf = compressed(pub))
          => (ret = "ok" /\ key = pub)
    /\ (op = "from_uncompressed" /\ priv # 0 /\ buf = uncompressed(pub))
          => (ret = "ok" /\ key = pub)

\* A key with an odd y went through compressed and from_compressed.
C10_Witness ==
    /\ op = "from_compressed"
    /\ priv = 1
    /\ buf = compressed(pub)
    /\ buf[1] = 3
    /\ key = pub

(***************************************************************************)
(* DER encoding properties.                                                *)
(***************************************************************************)
\* C11: parse_der of what serialize_der returned for a signature returns
\* that signature.
C11_DerRoundTrip ==
    [][(op = "serialize_der" /\ ret = "ok" /\ op' = "parse_der")
          => (ret' = "ok" /\ sig' = sig)]_vars

\* A signature made by sign went through serialize_der and parse_der.
C11_Witness == op = "parse_der" /\ signed /\ ret = "ok"

\* A full-width scalar with its high bit set went through as well.
DerPaddedWitness ==
    op = "parse_der" /\ ret = "ok" /\ buf[4] = ScalarLen + 1 /\ sig.r[1] >= 128

(***************************************************************************)
(* Key agreement  (src/secp256k1.rs).  Two digests are equal exactly when  *)
(* their inputs are.                                                       *)
(***************************************************************************)
MaxPeer == 3

EcdhPeers == (1..MaxPeer) \cup {N - 1}

\* A key agreement that takes the prefix from the peer's public key instead
\* of from the shared point.
ecdh_peer_parity(d, pk) ==
    LET point == PointMul[pk, d]
        x     == serialize_num[point.x]
        y     == IF is_even[pk.y] THEN 2 ELSE 3
    IN  HashDigest(<<y>> \o x)

\* PrivateKey::ecdh
ecdh(d, pk) ==
    LET point == PointMul[pk, d]
        x     == serialize_num[point.x]
        y     == IF is_even[point.y] THEN 2 ELSE 3
    IN  HashDigest(<<y>> \o x)

\* Two parties: a = priv with A = pub, and a second key b with B = b * G;
\* each calls ecdh with the other's public key.
Ecdh ==
    /\ op = "keygen"
    /\ \E b \in EcdhPeers :
         /\ peer' = b
         /\ shared' = <<ecdh(priv, generate_pubkey(b)), ecdh(b, pub)>>
    /\ op' = "ecdh"
    /\ ret' = "ok"
    /\ UNCHANGED <<nonceVars, ctxVars, pureVars>>
    /\ UNCHANGED <<pc, priv, pub, msg, nonce, sig, signed, chal, lhs, mul, buf,
                   key>>

NextEcdh == KeyGen(CodecKeys) \/ Ecdh

SpecEcdh == Init /\ [][NextEcdh]_vars

\* The secret the two parties should share: the digest of the compressed
\* form of (a * b) * G, computed in the reference group.
RefEcdh ==
    LET pt == RefG[(priv * peer) % N]
    IN  HashDigest(<<IF pt.y % 2 = 0 THEN 2 ELSE 3>>
                   \o to_fixed_be[pt.x, ScalarLen])

\* C12: for private keys a and b in [1, n - 1] with public keys A and B,
\* a.ecdh(B) and b.ecdh(A) are the same bytes, the digest of the compressed
\* form of the shared point (a * b) * G.
C12_EcdhSymmetric ==
    op = "ecdh" => (shared[1] = shared[2] /\ shared[1] = RefEcdh)

C12_Witness ==
    /\ op = "ecdh"
    /\ priv # peer
    /\ shared[1] = shared[2]
    /\ Len(shared[1]) = ScalarLen + 3

(***************************************************************************)
(* Deterministic nonces  (src/hash/hmac_sha2.rs, src/secp256k1.rs).        *)
(* HMAC-SHA256 is, like SHA-256, an injective constructor: the key and the *)
(* data between the marks 258, 259 and 260.  A digest is kept as the term  *)
(* that names it; the number its bytes spell is drawn when the code first  *)
(* compares or converts them, and remembered in oracle, so that the same   *)
(* term gives the same bytes every time.                                   *)
(***************************************************************************)
\* HmacSha256::new(key), input(data), finalize(); HmacSha256::quick
HmacSha256(k, data) == <<258>> \o k \o <<259>> \o data \o <<260>>

\* A generator that is not instantiated again: the state the previous call
\* left is the state the next call starts from.
drbg_kept(seed, seed2) ==
    IF drbg # NoDrbg THEN drbg
    ELSE LET k0 == to_fixed_be[0, ScalarLen]
             v0 == [i \in 1..ScalarLen |-> 1]
             k1 == HmacSha256(k0, v0 \o <<0>> \o seed \o seed2)
             v1 == HmacSha256(k1, v0)
             k2 == HmacSha256(k1, v1 \o <<1>> \o seed \o seed2)
         IN  [k |-> k2, v |-> HmacSha256(k2, v1)]

\* HmacSha256Drbg::new(seed, Some(seed2)): k and v start as ScalarLen bytes
\* 0x00 and 0x01.
drbg_new(seed, seed2) ==
    LET k0 == to_fixed_be[0, ScalarLen]
        v0 == [i \in 1..ScalarLen |-> 1]
        k1 == HmacSha256(k0, v0 \o <<0>> \o seed \o seed2)
        v1 == HmacSha256(k1, v0)
        k2 == HmacSha256(k1, v1 \o <<1>> \o seed \o seed2)
    IN  [k |-> k2, v |-> HmacSha256(k2, v1)]

\* The loop of HmacSha256Drbg::generate, for i in (0..=(len / 32)).rev(),
\* on a buffer of whole blocks: every round sets v = HMAC(k, v) and writes
\* it to what is left of the buffer; in round 0 nothing is left.
RECURSIVE generate_loop(_, _, _)
generate_loop(st, i, out) ==
    LET v       == HmacSha256(st.k, st.v)
        written == IF i > 0 THEN Append(out, v) ELSE out
    IN  IF i = 0 THEN [k |-> st.k, v |-> v, out |-> written]
        ELSE generate_loop([k |-> st.k, v |-> v], i - 1, written)

\* HmacSha256Drbg::generate(out), blocks being out.len() / 32
generate(st, blocks) == generate_loop(st, blocks, <<>>)

\* The body of the while loop of deterministic_k_ecdsa, before generate.
rekey(st) ==
    LET k == HmacSha256(st.k, st.v \o <<0>>)
    IN  [k |-> k, v |-> HmacSha256(k, st.v)]

\* Secp256k1::serialized_order
serialized_order == to_fixed_be[N, ScalarLen]

\* The order of two arrays of the same length, a >= b: the first byte that
\* differs decides.
array_ge(a, b) ==
    \/ a = b
    \/ \E i \in 1..Len(a) :
         /\ a[i] > b[i]
         /\ \A j \in 1..(i - 1) : a[j] = b[j]

\* A loop condition that rejects the zero block only.
nonce_rejected_zero_only(w) ==
    to_fixed_be[w, ScalarLen] = to_fixed_be[0, ScalarLen]

\* The condition of the while loop, nonce >= order || nonce == [0u8; 32],
\* for the block that spells w.
nonce_rejected(w) ==
    LET block == to_fixed_be[w, ScalarLen]
    IN  array_ge(block, serialized_order)
          \/ block = to_fixed_be[0, ScalarLen]

MaxDrbgWord == 2

MaxTries == 2

\* The numbers a block of the generator may spell.
DrbgWords == (0..MaxDrbgWord) \cup {N - 1, N, ByteBase}

\* The message digests signed with the generator's nonces.
DrbgDigests == {to_fixed_be[w, ScalarLen] : w \in 0..1}

\* The numbers the digest named t may spell, out of W, given what is drawn.
Drawn(t, W) ==
    IF \E p \in oracle : p[1] = t
    THEN {p[2] : p \in {q \in oracle : q[1] = t}}
    ELSE W

\* PrivateKey::sign up to the first candidate of deterministic_k_ecdsa: a
\* first call of the key in hand, or a second one after the first returned.
SignDrbgBegin ==
    /\ \/ op = "keygen"
       \/ op = "sign_drbg" /\ prev = NoPrev
    /\ \E m \in DrbgDigests :
        LET st == generate(drbg_new(serialize(priv), m), 1)
        IN  /\ msg' = m
            /\ drbg' = [k |-> st.k, v |-> st.v]
            /\ cand' = st.out[1]
    /\ tries' = 1
    /\ prev' = IF op = "sign_drbg"
               THEN [priv |-> priv, msg |-> msg, sig |-> sig]
               ELSE prev
    /\ pc' = "k_loop"
    /\ op' = "k_ecdsa"
    /\ ret' = "none"
    /\ signed' = FALSE
    /\ UNCHANGED <<oracle, ecdhVars, ctxVars, pureVars>>
    /\ UNCHANGED <<priv, pub, nonce, sig, chal, lhs, mul, buf, key>>

\* One round of the while loop: the candidate is zero or not below the
\* order, the state is re-keyed and the next candidate generated.
NonceRetry ==
    /\ pc = "k_loop"
    /\ tries < MaxTries
    /\ \E w \in Drawn(cand, DrbgWords) :
        /\ nonce_rejected(w)
        /\ oracle' = oracle \cup {<<cand, w>>}
    /\ LET st == generate(rekey(drbg), 1)
       IN  /\ drbg' = [k |-> st.k, v |-> st.v]
           /\ cand' = st.out[1]
    /\ tries' = tries + 1
    /\ UNCHANGED <<prev, ecdhVars, ctxVars, pureVars>>
    /\ UNCHANGED <<pc, op, priv, pub, msg, nonce, sig, signed, chal, lhs, mul,
                   buf, key, ret>>

\* The loop ends with a candidate in [1, N): the rest of PrivateKey::sign.
SignDrbgEnd ==
    /\ pc = "k_loop"
    /\ \E w \in Drawn(cand, DrbgWords) :
        /\ ~nonce_rejected(w)
        /\ oracle' = oracle \cup {<<cand, w>>}
        /\ LET out == sign(priv, msg, w)
           IN  /\ nonce' = w
               /\ sig' = out.sig
               /\ signed' = ~out.abort
               /\ ret' = IF out.abort THEN "abort" ELSE "signed"
    /\ pc' = "idle"
    /\ op' = "sign_drbg"
    /\ UNCHANGED <<drbg, cand, tries, prev, ecdhVars, ctxVars, pureVars>>
    /\ UNCHANGED <<priv, pub, msg, chal, lhs, mul, buf, key>>

\* A second PrivateKey::sign_schnorr of the key in hand.
SignSchnorrAgain ==
    /\ op = "sign_schnorr"
    /\ prev = NoPrev
    /\ \E m \in {to_fixed_be[w, ScalarLen] : w \in 0..1},
          ed \in ChalDigestWords :
        \E kd \in Drawn(schnorr_k_query(priv, m), NonceDigestWords) :
        LET out == sign_schnorr(priv, to_fixed_be[kd, ScalarLen],
                                to_fixed_be[ed, ScalarLen])
            q   == get_e_query(out.xR, pub, m)
        IN  /\ out.abort \/ to_fixed_be[ed, ScalarLen] \in get_e_digests(q)
            /\ msg' = m
            /\ nonce' = out.k
            /\ sig' = out.sig
            /\ signed' = ~out.abort
            /\ ret' = IF out.abort THEN "abort" ELSE "signed"
            /\ chal' = IF out.abort THEN NoChal
                       ELSE [q |-> q, e |-> to_fixed_be[ed, ScalarLen]]
            /\ oracle' = oracle \cup {<<schnorr_k_query(priv, m), kd>>}
    /\ prev' = [priv |-> priv, msg |-> msg, sig |-> sig]
    /\ op' = "sign_schnorr_again"
    /\ UNCHANGED <<drbg, cand, tries, ecdhVars, ctxVars, pureVars>>
    /\ UNCHANGED <<buf, key, lhs, pc, priv, pub, mul>>

NextNonce ==
    \/ KeyGen(Keys)
    \/ SignDrbgBegin
    \/ NonceRetry
    \/ SignDrbgEnd
    \/ SignSchnorr
    \/ SignSchnorrAgain

SpecNonce == Init /\ [][NextNonce]_vars

\* C13: two runs of PrivateKey::sign, and two runs of
\* PrivateKey::sign_schnorr, with the same private key and the same message
\* digest return the same signature bytes (or both abort), whatever was
\* signed or drawn in between.
C13_SigningDeterministic ==
    (/\ op \in {"sign_drbg", "sign_schnorr_again"}
     /\ prev # NoPrev
     /\ prev.priv = priv
     /\ prev.msg = msg)
    => sig = prev.sig

C13_Witness ==
    /\ op = "sign_drbg"
    /\ prev # NoPrev
    /\ prev.msg = msg
    /\ tries = 2
    /\ sig # NoSig
    /\ sig = prev.sig

\* The same for sign_schnorr: a second run that repeats the first.
SchnorrRepeatWitness ==
    /\ op = "sign_schnorr_again"
    /\ prev.msg = msg
    /\ sig # NoSig
    /\ sig = prev.sig

\* A second run on another message, with another signature.
OtherMessageWitness ==
    /\ op = "sign_drbg"
    /\ prev # NoPrev
    /\ prev.msg # msg
    /\ prev.sig # NoSig
    /\ sig # NoSig
    /\ sig # prev.sig

(***************************************************************************)
(* RFC 6979, section 3.2, written from the RFC: steps b to g instantiate K *)
(* and V from the key x and the digest h1; step h.2 sets V = HMAC_K(V) and *)
(* takes it as the candidate T; step h.3, after a rejected candidate, sets *)
(* K = HMAC_K(V || 0x00) and V = HMAC_K(V), V being that candidate.        *)
(***************************************************************************)
RfcInstantiate(x, h1) ==
    LET v0 == [i \in 1..ScalarLen |-> 1]
        k0 == [i \in 1..ScalarLen |-> 0]
        k1 == HmacSha256(k0, v0 \o <<0>> \o x \o h1)
        v1 == HmacSha256(k1, v0)
        k2 == HmacSha256(k1, v1 \o <<1>> \o x \o h1)
    IN  [k |-> k2, v |-> HmacSha256(k2, v1)]

\* K and V once the i-th candidate is generated; V is that candidate.
RECURSIVE RfcState(_, _, _)
RfcState(x, h1, i) ==
    IF i = 1
    THEN LET s == RfcInstantiate(x, h1)
         IN  [k |-> s.k, v |-> HmacSha256(s.k, s.v)]
    ELSE LET p == RfcState(x, h1, i - 1)
             k == HmacSha256(p.k, p.v \o <<0>>)
             v == HmacSha256(k, p.v)
         IN  [k |-> k, v |-> HmacSha256(k, v)]

RfcCandidate(x, h1, i) == RfcState(x, h1, i).v

\* C14: every candidate nonce deterministic_k_ecdsa draws is the candidate
\* of RFC 6979 with the same number: the first is HMAC_K(V) of the
\* instantiated state, and the one after a rejected candidate T is
\* HMAC_K'(V') with K' = HMAC_K(T || 0x00) and V' = HMAC_K'(T).
C14_Rfc6979Candidates ==
    pc = "k_loop" => cand = RfcCandidate(serialize(priv), msg, tries)

\* The first candidate is the first candidate of RFC 6979.
FirstCandidateRfc ==
    (pc = "k_loop" /\ tries = 1) => cand = RfcCandidate(serialize(priv), msg, 1)

\* What generate leaves in v is not the candidate it wrote but the block
\* after it, and that block is what the loop re-keys with.
GenerateLeavesNextBlock ==
    pc = "k_loop" => (drbg.v # cand /\ drbg.v = HmacSha256(drbg.k, cand))

(***************************************************************************)
(* The form of the signatures sign returns.                                *)
(***************************************************************************)
\* r and the unnormalised s0 of textbook ECDSA for the key, the digest and
\* the nonce in hand: r = x(k * G) mod N, s0 = (z + r * d) / k mod N.
RefR == RefG[nonce].x % N

RefS0 == (((from_bytes_be[msg] % N) + RefR * priv) * RefInvN(nonce)) % N

\* C15: the s of every signature sign returns is min(s0, N - s0) for the
\* unnormalised s0 = (z + r * d) / k mod N, hence at most floor(N / 2).
C15_LowS ==
    (op = "sign" /\ signed)
    => /\ SNum = IF RefS0 <= N - RefS0 THEN RefS0 ELSE N - RefS0
       /\ SNum <= N \div 2

C15_Witness ==
    /\ op = "sign"
    /\ signed
    /\ RefS0 > N \div 2
    /\ SNum = N - RefS0

\* C16: sign never returns a signature with r = 0 or s = 0: whenever the r
\* or the s it computes is zero, sign_raw aborts.
C16_NoZeroSignature ==
    op = "sign"
    => /\ signed => (RNum # 0 /\ SNum # 0)
       /\ (RefR = 0 \/ RefS0 = 0) => (ret = "abort" /\ ~signed)

C16_Witness == op = "sign" /\ ret = "abort" /\ RefR = 0

\* The other zero: r is not zero and s is.
ZeroSWitness == op = "sign" /\ ret = "abort" /\ RefR # 0 /\ RefS0 = 0

(***************************************************************************)
(* get_context  (src/secp256k1.rs).  Several threads make their first call *)
(* at once.  INIT_CONTEXT is a std::sync::Once: "incomplete", "running"    *)
(* while one caller runs the closure, "complete" after it.  The closure's  *)
(* store into the static is not atomic: the value is "torn" while it is    *)
(* being written.                                                          *)
(***************************************************************************)
\* A Once that lets a caller through as soon as some caller has started
\* the closure.
once_passes_started(state) == state # "incomplete"

\* Once::call_once returns to a caller that did not run the closure only
\* when the closure has completed.
once_passes(state) == state = "complete"

\* get_context is called: INIT_CONTEXT.call_once(..) is reached.
CallGetContext(t) ==
    /\ tpc[t] = "start"
    /\ tpc' = [tpc EXCEPT ![t] = "call_once"]
    /\ UNCHANGED <<once, ctx, inits, got>>
    /\ UNCHANGED <<coreVars, ecdhVars, nonceVars, pureVars>>

\* call_once finds the Once incomplete: this caller runs the closure.
OnceEnter(t) ==
    /\ tpc[t] = "call_once"
    /\ once = "incomplete"
    /\ once' = "running"
    /\ tpc' = [tpc EXCEPT ![t] = "new"]
    /\ UNCHANGED <<ctx, inits, got>>
    /\ UNCHANGED <<coreVars, ecdhVars, nonceVars, pureVars>>

\* call_once returns without running the closure; while the Once is
\* running the caller is blocked.
OncePass(t) ==
    /\ tpc[t] = "call_once"
    /\ once_passes(once)
    /\ tpc' = [tpc EXCEPT ![t] = "read"]
    /\ UNCHANGED <<once, ctx, inits, got>>
    /\ UNCHANGED <<coreVars, ecdhVars, nonceVars, pureVars>>

\* The closure: Default::default(), that is Secp256k1::new()
RunNew(t) ==
    /\ tpc[t] = "new"
    /\ inits' = inits + 1
    /\ tpc' = [tpc EXCEPT ![t] = "store"]
    /\ UNCHANGED <<once, ctx, got>>
    /\ UNCHANGED <<coreVars, ecdhVars, nonceVars, pureVars>>

\* The closure: CONTEXT = Some(..), the store begins
StoreBegin(t) ==
    /\ tpc[t] = "store"
    /\ ctx' = [tag |-> "torn", id |-> inits]
    /\ tpc' = [tpc EXCEPT ![t] = "storing"]
    /\ UNCHANGED <<once, inits, got>>
    /\ UNCHANGED <<coreVars, ecdhVars, nonceVars, pureVars>>

\* The store ends, the closure returns and the Once completes.
StoreEnd(t) ==
    /\ tpc[t] = "storing"
    /\ ctx' = [tag |-> "Some", id |-> ctx.id]
    /\ once' = "complete"
    /\ tpc' = [tpc EXCEPT ![t] = "read"]
    /\ UNCHANGED <<inits, got>>
    /\ UNCHANGED <<coreVars, ecdhVars, nonceVars, pureVars>>

\* unsafe { CONTEXT.as_ref().unwrap() }: the reference, a panic on None, or
\* a reference to a value that is still being written.
ReadContext(t) ==
    /\ tpc[t] = "read"
    /\ got' = [got EXCEPT ![t] =
                 IF ctx.tag = "Some" THEN [tag |-> "ref", id |-> ctx.id]
                 ELSE IF ctx.tag = "None" THEN [tag |-> "panic", id |-> 0]
                 ELSE [tag |-> "torn", id |-> ctx.id]]
    /\ tpc' = [tpc EXCEPT ![t] = "done"]
    /\ UNCHANGED <<once, ctx, inits>>
    /\ UNCHANGED <<coreVars, ecdhVars, nonceVars, pureVars>>

NextContext ==
    \E t \in Threads :
        \/ CallGetContext(t)
        \/ OnceEnter(t)
        \/ OncePass(t)
        \/ RunNew(t)
        \/ StoreBegin(t)
        \/ StoreEnd(t)
        \/ ReadContext(t)

SpecContext == Init /\ [][NextContext]_vars

\* C17: under any interleaving of first calls of get_context from several
\* threads, Secp256k1::new runs exactly once, no caller sees the None (or a
\* half-written) context, and every caller gets a reference to the same
\* value.
C17_ContextInitialisedOnce ==
    /\ inits <= 1
    /\ \A t \in Threads :
         tpc[t] = "done" => (inits = 1 /\ got[t] = [tag |-> "ref", id |-> 1])

C17_Witness ==
    /\ \A t \in Threads : tpc[t] = "done" /\ got[t].tag = "ref"
    /\ inits = 1
    /\ once = "complete"

\* A caller waits at call_once while another one is inside the closure.
ContextBlockedWitness ==
    \E t, u \in Threads :
        tpc[t] = "call_once" /\ tpc[u] = "storing" /\ ctx.tag = "torn"

(***************************************************************************)
(* FieldElement on its own  (src/field.rs): two operands are built by the  *)
(* public constructors, then one operation is applied to them.  The second *)
(* operand takes the modulus of the first: same_modulo aborts otherwise.   *)
(***************************************************************************)
MaxFieldNum == 3

MaxExp == 3

\* Numbers handed to FieldElement::new, some negative, some past the modulus.
FieldNewNums ==
    ((0 - MaxFieldNum)..MaxFieldNum) \cup {N - 1, N, N + 1, P - 1, P, P + 1}

\* Numbers the bytes handed to FieldElement::from_serialize spell.
FieldSerWords == (0..MaxFieldNum) \cup {N - 1, N, N + 1, P - 1, P, P + 3}

FieldExps == (0..MaxExp) \cup {N - 2, P - 2}

FieldModuli == {P, N}

\* FieldElement::pow
pow(f, other) == FE(ModPow[f.num, other.num, f.modulo], f.modulo)

FieldConstructors == {"new", "from_serialize", "infinity"}

FieldOperations ==
    {"add", "sub", "mul", "div", "pow", "pow_u", "sqrt", "reflect"}

\* The modulus of the operand to build: any for the first, the first's for
\* the second.
OperandModuli ==
    IF op = "init" THEN FieldModuli
    ELSE IF op \in FieldConstructors /\ Len(args) < 2 THEN {args[1].modulo}
    ELSE {}

\* FieldElement::new(num, modulo)
ConstructNew ==
    /\ \E m \in OperandModuli, n \in FieldNewNums :
         /\ args' = Append(args, FieldNew(n, m))
         /\ res' = FieldNew(n, m)
    /\ op' = "new"
    /\ UNCHANGED <<coreVarsButOp, ecdhVars, nonceVars, ctxVars>>

\* FieldElement::from_serialize(ser, modulo)
ConstructFromSerialize ==
    /\ \E m \in OperandModuli, w \in FieldSerWords :
         /\ args' = Append(args, from_serialize[to_fixed_be[w, ScalarLen], m])
         /\ res' = from_serialize[to_fixed_be[w, ScalarLen], m]
    /\ op' = "from_serialize"
    /\ UNCHANGED <<coreVarsButOp, ecdhVars, nonceVars, ctxVars>>

\* FieldElement::infinity(modulo)
ConstructInfinity ==
    /\ \E m \in OperandModuli :
         /\ args' = Append(args, infinity(m))
         /\ res' = infinity(m)
    /\ op' = "infinity"
    /\ UNCHANGED <<coreVarsButOp, ecdhVars, nonceVars, ctxVars>>

\* impl Add for FieldElement
ApplyAdd ==
    /\ op \in FieldConstructors
    /\ Len(args) = 2
    /\ res' = FAdd[args[1], args[2]]
    /\ op' = "add"
    /\ UNCHANGED <<args, coreVarsButOp, ecdhVars, nonceVars, ctxVars>>

\* impl Sub for FieldElement
ApplySub ==
    /\ op \in FieldConstructors
    /\ Len(args) = 2
    /\ res' = FSub[args[1], args[2]]
    /\ op' = "sub"
    /\ UNCHANGED <<args, coreVarsButOp, ecdhVars, nonceVars, ctxVars>>

\* impl Mul for FieldElement
ApplyMul ==
    /\ op \in FieldConstructors
    /\ Len(args) = 2
    /\ res' = FMul[args[1], args[2]]
    /\ op' = "mul"
    /\ UNCHANGED <<args, coreVarsButOp, ecdhVars, nonceVars, ctxVars>>

\* impl Div for FieldElement
ApplyDiv ==
    /\ op \in FieldConstructors
    /\ Len(args) = 2
    /\ res' = FDiv[args[1], args[2]]
    /\ op' = "div"
    /\ UNCHANGED <<args, coreVarsButOp, ecdhVars, nonceVars, ctxVars>>

\* FieldElement::pow(other)
ApplyPow ==
    /\ op \in FieldConstructors
    /\ Len(args) = 2
    /\ res' = pow(args[1], args[2])
    /\ op' = "pow"
    /\ UNCHANGED <<args, coreVarsButOp, ecdhVars, nonceVars, ctxVars>>

\* FieldElement::pow_u(other)
ApplyPowU ==
    /\ op \in FieldConstructors
    /\ Len(args) = 2
    /\ \E e \in FieldExps : res' = pow_u[args[1], e]
    /\ op' = "pow_u"
    /\ UNCHANGED <<args, coreVarsButOp, ecdhVars, nonceVars, ctxVars>>

\* FieldElement::sqrt
ApplySqrt ==
    /\ op \in FieldConstructors
    /\ Len(args) = 2
    /\ res' = sqrt[args[1]]
    /\ op' = "sqrt"
    /\ UNCHANGED <<args, coreVarsButOp, ecdhVars, nonceVars, ctxVars>>

\* FieldElement::reflect
ApplyReflect ==
    /\ op \in FieldConstructors
    /\ Len(args) = 2
    /\ res' = reflect[args[1]]
    /\ op' = "reflect"
    /\ UNCHANGED <<args, coreVarsButOp, ecdhVars, nonceVars, ctxVars>>

NextField ==
    \/ ConstructNew
    \/ ConstructFromSerialize
    \/ ConstructInfinity
    \/ ApplyAdd
    \/ ApplySub
    \/ ApplyMul
    \/ ApplyDiv
    \/ ApplyPow
    \/ ApplyPowU
    \/ ApplySqrt
    \/ ApplyReflect

SpecField == Init /\ [][NextField]_vars

Normalised(f) == 0 <= f.num /\ f.num < f.modulo

\* C18: after construction by new, from_serialize or infinity, and after
\* add, sub, mul, div, pow, pow_u, sqrt and reflect, the value satisfies
\* 0 <= num < modulo.
C18_FieldNormalised ==
    op \in FieldConstructors \cup FieldOperations => Normalised(res)

\* Every constructor but from_serialize and every operation but reflect
\* gives a normalised value, whatever the operands.
FieldNormalisedButTwo ==
    op \in (FieldConstructors \cup FieldOperations)
               \ {"from_serialize", "reflect"}
    => Normalised(res)

\* reflect of a normalised value other than zero is normalised.
ReflectOfNonZero ==
    (op = "reflect" /\ Normalised(args[1]) /\ args[1].num # 0)
    => Normalised(res)

\* reflect of zero is the modulus itself.
ReflectZeroWitness ==
    op = "reflect" /\ args[1].num = 0 /\ res.num = res.modulo

(***************************************************************************)
(* Point on its own  (src/point.rs): operands are built by the two public  *)
(* constructors, both of which check is_on_curve, or are the infinity      *)
(* value gen_zero; then they are added, or one is multiplied by a scalar.  *)
(***************************************************************************)
MaxPointLog == 3

MaxPointScalar == 4

\* Point::new_with_group(x, y, modulo, group): Some when on the curve.
new_with_group(x, y) ==
    LET point == Pt(FieldNew(x, P), FieldNew(y, P))
    IN  IF is_on_curve[point] THEN {point} ELSE {}

\* Point::new_serialized_with_group(x, y, modulo, group): Some when on the
\* curve; the coordinates are kept as the bytes spell them.
new_serialized_with_group(x, y) ==
    LET point == Pt(from_serialize[x, P], from_serialize[y, P])
    IN  IF is_on_curve[point] THEN {point} ELSE {}

\* The points of the curve, and those of small logarithm with their
\* opposites.
AllPoints == UNION {new_with_group(RefG[k].x, RefG[k].y) : k \in 1..(N - 1)}

SmallPoints ==
    UNION {new_with_group(RefG[k].x, RefG[k].y) :
             k \in (1..MaxPointLog) \cup ((N - MaxPointLog)..(N - 1))}

\* Points of small logarithm whose bytes spell x, x + P, y or y + P.
SerializedPoints ==
    UNION {new_serialized_with_group(
               to_fixed_be[RefG[k].x + dx * P, ScalarLen],
               to_fixed_be[RefG[k].y + dy * P, ScalarLen]) :
             k \in 1..MaxPointLog, dx \in 0..1, dy \in 0..1}

PointZero == gen_zero[generator]

PointScalars == (0..MaxPointScalar) \cup {N - 1, N, N + 1}

\* impl Add for Point
AddPoints ==
    /\ op = "init"
    /\ \E a \in AllPoints \cup SerializedPoints \cup {PointZero},
          b \in SmallPoints \cup SerializedPoints \cup {PointZero} :
         /\ args' = <<a, b>>
         /\ res' = add_assign[a, b]
    /\ op' = "point_add"
    /\ UNCHANGED <<coreVarsButOp, ecdhVars, nonceVars, ctxVars>>

\* impl Mul<$t> for Point
MulPoint ==
    /\ op = "init"
    /\ \E a \in AllPoints \cup SerializedPoints \cup {PointZero},
          k \in PointScalars :
         /\ args' = <<a, k>>
         /\ res' = PointMul[a, k]
    /\ op' = "point_mul"
    /\ UNCHANGED <<coreVarsButOp, ecdhVars, nonceVars, ctxVars>>

NextPoint == AddPoints \/ MulPoint

SpecPoint == Init /\ [][NextPoint]_vars

OnCurveOrZero(pt) == is_on_curve[pt] \/ (pt.x.num = 0 /\ pt.y.num = 0)

ReducedPoint(pt) ==
    /\ 0 <= pt.x.num /\ pt.x.num < P
    /\ 0 <= pt.y.num /\ pt.y.num < P

\* C19: for operands that satisfy the curve equation or are the infinity
\* value (0, 0), the sum of two points and the product of a point by a
\* non-negative scalar satisfies is_on_curve or is the infinity value.
C19_PointClosure ==
    op \in {"point_add", "point_mul"} => OnCurveOrZero(res)

\* With coordinates in [0, P) the sum and the product are the sum and the
\* product of the group, so they are on the curve or (0, 0).
PointReducedClosure ==
    /\ (op = "point_add" /\ ReducedPoint(args[1]) /\ ReducedPoint(args[2]))
       => /\ OnCurveOrZero(res)
          /\ RefOf(res) = RefAdd(RefOf(args[1]), RefOf(args[2]))
    /\ (op = "point_mul" /\ ReducedPoint(args[1]))
       => /\ OnCurveOrZero(res)
          /\ RefOf(res) = RefMul(args[2] % N, RefOf(args[1]))

\* The same point, once with x and once with x + P, added to itself.
UnreducedSumWitness ==
    /\ op = "point_add"
    /\ args[1].x.num = args[2].x.num + P
    /\ args[1].y = args[2].y
    /\ ~OnCurveOrZero(res)

\* The sum the four cases of the group law give for the operands as the
\* field sees them: an infinite operand, opposite points, chord or tangent.
RefSumOfArgs == RefAdd(RefOf(args[1]), RefOf(args[2]))

\* C22: addition implements the group law with (0, 0) as the only
\* identity: for operands on the curve or infinity, P + Q is Q if P is
\* infinity, P if Q is infinity, infinity if the x are equal and the y are
\* not or are zero, and the chord or tangent point otherwise; no finite
\* point of the curve acts as the identity.
C22_AddGroupLaw ==
    (op = "point_add" /\ OnCurveOrZero(args[1]) /\ OnCurveOrZero(args[2]))
    => /\ RefOf(res) = RefSumOfArgs
       /\ (args[1] # PointZero /\ args[2] # PointZero)
          => (res # args[1] /\ res # args[2])

\* The identity part on its own: an infinite operand returns the other
\* operand as it is stored, and two finite operands never return one of
\* them.
AddIdentityOnlyZero ==
    op = "point_add"
    => /\ args[1] = PointZero => res = args[2]
       /\ args[2] = PointZero => res = args[1]
       /\ (args[1] # PointZero /\ args[2] # PointZero)
          => (res # args[1] /\ res # args[2])

\* Opposite points whose x are spelled x + P and x: the chord is taken.
UnreducedOppositeWitness ==
    /\ op = "point_add"
    /\ args[1].x.num = args[2].x.num + P
    /\ RefSumOfArgs = RefInf
    /\ RefOf(res) # RefInf

\* Opposite points with equal x: the sum is the infinity value.
OppositeSumWitness ==
    /\ op = "point_add"
    /\ args[1].x = args[2].x /\ args[1].y # args[2].y
    /\ res = PointZero

(***************************************************************************)
(* The six scalar multiplications of mul_impl_point!  (src/point.rs), for  *)
(* a scalar k >= 0.  Three of them run the loop themselves, the others     *)
(* forward to Mul<$t> for Point.                                           *)
(***************************************************************************)
\* impl Add for Point: self += &other.
add(self, other) == add_assign[self, other]

\* The loop body with result = result.clone() + adding.clone().
MulRoundCloned[st \in MulStates] ==
    [result |-> IF IsOdd[st.other] THEN add(st.result, st.adding)
                ELSE st.result,
     adding |-> add(st.adding, st.adding),
     other  |-> Shr1[st.other]]

MulLoopCloned[st \in MulStates] ==
    IF st.other = 0 THEN st.result ELSE MulLoopCloned[MulRoundCloned[st]]

\* A multiplication that adds in every round, odd bit or not.
mul_adding_every_round(k, pt) ==
    LET loop[st \in MulStates] ==
          IF st.other = 0 THEN st.result
          ELSE loop[[result |-> add(st.result, st.adding),
                     adding |-> add(st.adding, st.adding),
                     other  |-> Shr1[st.other]]]
    IN  loop[MulStart(pt, k)]

\* impl Mul<$t> for Point
mul_point_scalar(pt, k) == MulLoop[MulStart(pt, k)]

\* impl Mul<&$t> for Point: self.mul(other.clone())
mul_point_ref_scalar(pt, k) == mul_point_scalar(pt, k)

\* impl Mul<Point> for $t: other.mul(self)
mul_scalar_point(k, pt) == mul_point_scalar(pt, k)

\* impl Mul<Point> for &$t: other.mul(self)
mul_ref_scalar_point(k, pt) == mul_point_ref_scalar(pt, k)

\* impl Mul<&Point> for $t
mul_scalar_ref_point(k, pt) == MulLoopCloned[MulStart(pt, k)]

\* impl Mul<&Point> for &$t: the loop on a clone of the scalar.
mul_ref_scalar_ref_point(k, pt) == MulLoopCloned[MulStart(pt, k)]

MulOperands == AllPoints \cup SerializedPoints \cup {PointZero}

MulScalars == PointScalars

MulPointScalar ==
    /\ op = "init"
    /\ \E a \in MulOperands, k \in MulScalars :
         /\ args' = <<a, k>>
         /\ res' = mul_point_scalar(a, k)
    /\ op' = "mul_point_scalar"
    /\ UNCHANGED <<coreVarsButOp, ecdhVars, nonceVars, ctxVars>>

MulPointRefScalar ==
    /\ op = "init"
    /\ \E a \in MulOperands, k \in MulScalars :
         /\ args' = <<a, k>>
         /\ res' = mul_point_ref_scalar(a, k)
    /\ op' = "mul_point_ref_scalar"
    /\ UNCHANGED <<coreVarsButOp, ecdhVars, nonceVars, ctxVars>>

MulScalarPoint ==
    /\ op = "init"
    /\ \E a \in MulOperands, k \in MulScalars :
         /\ args' = <<a, k>>
         /\ res' = mul_scalar_point(k, a)
    /\ op' = "mul_scalar_point"
    /\ UNCHANGED <<coreVarsButOp, ecdhVars, nonceVars, ctxVars>>

MulRefScalarPoint ==
    /\ op = "init"
    /\ \E a \in MulOperands, k \in MulScalars :
         /\ args' = <<a, k>>
         /\ res' = mul_ref_scalar_point(k, a)
    /\ op' = "mul_ref_scalar_point"
    /\ UNCHANGED <<coreVarsButOp, ecdhVars, nonceVars, ctxVars>>

MulScalarRefPoint ==
    /\ op = "init"
    /\ \E a \in MulOperands, k \in MulScalars :
         /\ args' = <<a, k>>
         /\ res' = mul_scalar_ref_point(k, a)
    /\ op' = "mul_scalar_ref_point"
    /\ UNCHANGED <<coreVarsButOp, ecdhVars, nonceVars, ctxVars>>

MulRefScalarRefPoint ==
    /\ op = "init"
    /\ \E a \in MulOperands, k \in MulScalars :
         /\ args' = <<a, k>>
         /\ res' = mul_ref_scalar_ref_point(k, a)
    /\ op' = "mul_ref_scalar_ref_point"
    /\ UNCHANGED <<coreVarsButOp, ecdhVars, nonceVars, ctxVars>>

NextPointMul ==
    \/ MulPointScalar
    \/ MulPointRefScalar
    \/ MulScalarPoint
    \/ MulRefScalarPoint
    \/ MulScalarRefPoint
    \/ MulRefScalarRefPoint

SpecPointMul == Init /\ [][NextPointMul]_vars

MulOps ==
    {"mul_point_scalar", "mul_point_ref_scalar", "mul_scalar_point",
     "mul_ref_scalar_point", "mul_scalar_ref_point",
     "mul_ref_scalar_ref_point"}

\* The sum of k copies of the point of logarithm l, one addition of the
\* group law after another.
RefSumCopies[k \in Nat, l \in 0..(N - 1)] ==
    IF k = 0 THEN RefInf ELSE RefAdd(RefSumCopies[k - 1, l], RefG[l])

\* C23: for every point P of the curve and every scalar k >= 0, k * P is
\* the sum of k copies of P under the group law, 0 * P is the infinity
\* value, and the six forms of the operator return the same point.
C23_MulIsRepeatedAddition ==
    op \in MulOps
    => /\ RefOf(res) = RefSumCopies[args[2], RefLog(RefOf(args[1]))]
       /\ args[2] = 0 => res = PointZero
       /\ res = mul_point_scalar(args[1], args[2])
       /\ res = mul_point_ref_scalar(args[1], args[2])
       /\ res = mul_scalar_point(args[2], args[1])
       /\ res = mul_ref_scalar_point(args[2], args[1])
       /\ res = mul_scalar_ref_point(args[2], args[1])
       /\ res = mul_ref_scalar_ref_point(args[2], args[1])

\* A finite product by a scalar past the order, by the loop of k * &Point.
C23_Witness ==
    /\ op = "mul_scalar_ref_point"
    /\ is_on_curve[args[1]]
    /\ args[2] > N
    /\ res = args[1]

\* The order times a point whose x is spelled x + P: the infinity value.
MulOrderWitness ==
    /\ op = "mul_ref_scalar_ref_point"
    /\ args[1].x.num >= P
    /\ args[2] = N
    /\ res = PointZero

(***************************************************************************)
(* jacobi_symbol on its own  (src/jacobi.rs), one round of the outer loop  *)
(* at a time.  res holds the locals: numerator, denominator, res.          *)
(***************************************************************************)
MaxNumerator == 24

MaxDenominator == 19

JacobiNumerators == (0 - MaxNumerator)..MaxNumerator

\* The odd positive denominators.
JacobiDenominators == {d \in 1..MaxDenominator : d % 2 = 1}

\* A round that swaps without the sign of quadratic reciprocity.
jacobi_round_no_reciprocity(st) ==
    LET tw == StripTwos[st.numerator, st.denominator, st.res]
    IN  [numerator   |-> Rem[st.denominator, tw.numerator],
         denominator |-> tw.numerator,
         res         |-> tw.res]

\* One round of the outer loop of jacobi_symbol, the numerator not being 0:
\* the inner loop, the swap, the flip when both are 3 mod 4, the remainder.
jacobi_round(st) ==
    LET tw  == StripTwos[st.numerator, st.denominator, st.res]
        num == st.denominator
        den == tw.numerator
        num_mod == ModFloor[num, 4]
    IN  [numerator   |-> Rem[num, den],
         denominator |-> den,
         res         |-> IF num_mod = 3 /\ ModFloor[den, 4] = num_mod
                         THEN flip[tw.res] ELSE tw.res]

\* jacobi_symbol(numerator, denominator) is called.
JacobiCall ==
    /\ op = "init"
    /\ \E a \in JacobiNumerators, d \in JacobiDenominators :
         /\ args' = <<a, d>>
         /\ res' = [numerator |-> a, denominator |-> d, res |-> "One"]
    /\ pc' = "jacobi_loop"
    /\ op' = "jacobi"
    /\ UNCHANGED <<priv, pub, msg, nonce, sig, signed, chal, lhs, mul, buf,
                   key, ret>>
    /\ UNCHANGED <<ecdhVars, nonceVars, ctxVars>>

\* while numerator != 0 { .. }
JacobiRound ==
    /\ pc = "jacobi_loop"
    /\ res.numerator # 0
    /\ res' = jacobi_round(res)
    /\ UNCHANGED <<args, coreVars, ecdhVars, nonceVars, ctxVars>>

\* The loop has ended: res, or Zero when the denominator is not 1.
JacobiReturn ==
    /\ pc = "jacobi_loop"
    /\ res.numerator = 0
    /\ ret' = IF res.denominator = 1 THEN res.res ELSE "Zero"
    /\ pc' = "idle"
    /\ op' = "jacobi_done"
    /\ UNCHANGED <<priv, pub, msg, nonce, sig, signed, chal, lhs, mul, buf,
                   key>>
    /\ UNCHANGED <<args, res, ecdhVars, nonceVars, ctxVars>>

NextJacobi == JacobiCall \/ JacobiRound \/ JacobiReturn

SpecJacobi == Init /\ [][NextJacobi]_vars

\* A call that has started keeps running: its rounds and its return are
\* steps of one thread.
SpecJacobiFair ==
    SpecJacobi /\ WF_vars(JacobiRound) /\ WF_vars(JacobiReturn)

IsOddPrime(p) == p > 2 /\ \A q \in 2..(p - 1) : p % q # 0

\* The Legendre symbol by Euler's criterion, p being an odd prime.
Euler(a, p) ==
    LET e == ModPow[a, (p - 1) \div 2, p]
    IN  IF e = 1 THEN "One" ELSE IF e = p - 1 THEN "MinusOne" ELSE "Zero"

\* What a call returned is what the one-piece jacobi_symbol of the Schnorr
\* model gives, and for an odd prime denominator and a numerator >= 0 it
\* is the Legendre symbol of Euler's criterion.
JacobiReturnsLegendre ==
    op = "jacobi_done"
    => /\ (args[1] >= 0 => ret = jacobi_symbol[args[1], args[2]])
       /\ (args[1] >= 0 /\ IsOddPrime(args[2]))
          => ret = Euler(args[1], args[2])

\* C20: for every odd prime denominator p and every numerator a >= 0,
\* jacobi_symbol(a, p) is the Legendre symbol given by Euler's criterion
\* (One when a^((p-1)/2) mod p = 1, MinusOne when it is p - 1, Zero when p
\* divides a), and the call returns for every numerator and every odd
\* positive denominator.
C20_JacobiIsLegendre ==
    /\ [](JacobiReturnsLegendre)
    /\ (op = "jacobi") ~> (op = "jacobi_done")

C20_Witness ==
    /\ op = "jacobi_done"
    /\ IsOddPrime(args[2])
    /\ args[1] > args[2]
    /\ ret = "MinusOne"
    /\ ret = Euler(args[1], args[2])

\* A call on a negative numerator returns as well.
JacobiNegativeWitness == op = "jacobi_done" /\ args[1] < 0

(***************************************************************************)
(* The C entry points  (src/ffi.rs).  A call returns the code "1", "0" or  *)
(* "-1", or it aborts: a panic that reaches an extern "C" function.  The   *)
(* caller's key buffer has the documented size, 1 + ScalarLen bytes with   *)
(* the flag 1 and 1 + 2 * ScalarLen bytes with the flag 0 (33 and 65).     *)
(***************************************************************************)
MaxFfiKey == 2

FfiFlags == {0 - 1, 0, 1, 2}

FfiDigest == to_fixed_be[1, ScalarLen]

\* Compressed keys: the x of the small keys and two x off the curve, under
\* the prefixes 2, 3 and 5.
FfiCompressedKeys ==
    {<<prefix>> \o to_fixed_be[x, ScalarLen] :
        prefix \in {2, 3, 5},
        x \in {RefG[d].x : d \in 1..MaxFfiKey} \cup {0, 1}}

\* Uncompressed keys: the points of the small keys, as they are and with y
\* off by one, under the prefixes 4 and 0.
FfiUncompressedKeys ==
    {<<prefix>> \o to_fixed_be[RefG[d].x, ScalarLen]
                \o to_fixed_be[RefG[d].y + dy, ScalarLen] :
        prefix \in {4, 0}, d \in 1..MaxFfiKey, dy \in {0, 1}}

\* The signature buffers: what sign returns for the small keys and nonces,
\* and small values of r and s.
FfiEcdsaSigs ==
    {sign(d, FfiDigest, k).sig.r \o sign(d, FfiDigest, k).sig.s :
        d \in 1..MaxFfiKey, k \in 1..MaxFfiKey}
    \cup {to_fixed_be[r, ScalarLen] \o to_fixed_be[s, ScalarLen] :
            r \in 0..1, s \in 0..1}

FfiSchnorrSigs ==
    {to_fixed_be[r, ScalarLen] \o to_fixed_be[s, ScalarLen] :
        r \in {RefG[k].x : k \in 1..MaxFfiKey} \cup {0},
        s \in 0..MaxFfiKey}

\* slice::from_raw_parts(pubkey, len) and the decoder the flag selects:
\* "-1" for another flag and for Err, "abort" for a panic in the decoder.
ffi_pubkey(flag, pubkey, uncompressed_len) ==
    IF flag = 1
    THEN LET out == from_compressed(SubSeq(pubkey, 1, ScalarLen + 1))
         IN  [code |-> IF out.err THEN "-1" ELSE "ok", key |-> out.key]
    ELSE IF flag = 0
    THEN LET out == from_uncompressed(SubSeq(pubkey, 1, uncompressed_len))
         IN  [code |-> IF out.abort THEN "abort" ELSE "ok", key |-> out.key]
    ELSE [code |-> "-1", key |-> NoKey]

\* ecc_secp256k1_ecdsa_verify(sig, msg, pubkey, compressed); null says that
\* one of the three pointers is null.
ecc_secp256k1_ecdsa_verify(null, sigbuf, m, pubkey, flag) ==
    IF null THEN [code |-> "-1", key |-> NoKey]
    ELSE LET k == ffi_pubkey(flag, pubkey, 2 * ScalarLen + 1)
         IN  IF k.code # "ok" THEN k
             ELSE [code |-> IF verify(k.key, m, SignatureParse(sigbuf))
                            THEN "1" ELSE "0",
                   key  |-> k.key]

\* The buffers a caller may hand in with the flag: any for 1, which reads
\* the first 1 + ScalarLen bytes; the documented size for 0.
FfiKeyBuffers(flag) ==
    IF flag = 0 THEN FfiUncompressedKeys
    ELSE FfiCompressedKeys \cup FfiUncompressedKeys

FfiEcdsaVerify ==
    /\ op = "init"
    /\ \E null \in BOOLEAN, flag \in FfiFlags :
       \E pubkey \in FfiKeyBuffers(flag), sigbuf \in FfiEcdsaSigs :
         LET out == ecc_secp256k1_ecdsa_verify(null, sigbuf, FfiDigest,
                                               pubkey, flag)
         IN  /\ args' = [null |-> null, flag |-> flag]
             /\ buf' = pubkey
             /\ sig' = SignatureParse(sigbuf)
             /\ key' = out.key
             /\ ret' = out.code
    /\ msg' = FfiDigest
    /\ op' = "ffi_ecdsa_verify"
    /\ UNCHANGED <<pc, priv, pub, nonce, signed, chal, lhs, mul>>
    /\ UNCHANGED <<res, ecdhVars, nonceVars, ctxVars>>

\* ecc_secp256k1_schnorr_verify up to the scalar multiplication of the key
\* in verify_schnorr_raw: the flag 0 takes 2 * ScalarLen bytes (64) of the
\* key buffer.
FfiSchnorrVerifyCall ==
    /\ op = "init"
    /\ \E null \in BOOLEAN, flag \in FfiFlags :
       \E pubkey \in FfiKeyBuffers(flag), sigbuf \in FfiSchnorrSigs :
         LET k  == IF null THEN [code |-> "-1", key |-> NoKey]
                   ELSE ffi_pubkey(flag, pubkey, 2 * ScalarLen)
             sg == SignatureParse(sigbuf)
             q  == get_e_query(from_serialize[sg.r, N], k.key, FfiDigest)
         IN  /\ args' = [null |-> null, flag |-> flag]
             /\ buf' = pubkey
             /\ sig' = sg
             /\ key' = k.key
             /\ IF k.code # "ok"
                THEN /\ ret' = k.code
                     /\ UNCHANGED <<pc, pub, chal, lhs, mul>>
                ELSE /\ ret' = "pending"
                     /\ pc' = "vs_mul"
                     /\ pub' = k.key
                     /\ lhs' = PointMul[generator, from_serialize[sg.s, N].num]
                     /\ \E ed \in get_e_digests(q) :
                          /\ chal' = [q |-> q, e |-> ed]
                          /\ mul' = MulStart(k.key,
                                       reflect[from_serialize[ed, N]].num)
    /\ msg' = FfiDigest
    /\ op' = "ffi_schnorr_verify"
    /\ UNCHANGED <<priv, nonce, signed>>
    /\ UNCHANGED <<res, ecdhVars, nonceVars, ctxVars>>

\* verify_schnorr returned: 1 for true, 0 for false.
FfiSchnorrVerifyReturn ==
    /\ op = "ffi_schnorr_verify"
    /\ pc = "vs_mul"
    /\ mul.other = 0
    /\ ret' = IF verify_schnorr_tail(lhs, mul.result, from_serialize[sig.r, N])
              THEN "1" ELSE "0"
    /\ pc' = "idle"
    /\ UNCHANGED extraVars
    /\ UNCHANGED <<buf, key, lhs, op, priv, pub, msg, nonce, sig, signed, chal,
                   mul>>

NextFfi ==
    \/ FfiEcdsaVerify
    \/ FfiSchnorrVerifyCall
    \/ VerifySchnorrMulRound
    \/ FfiSchnorrVerifyReturn

SpecFfi == Init /\ [][NextFfi]_vars

FfiReturned ==
    op \in {"ffi_ecdsa_verify", "ffi_schnorr_verify"} /\ pc = "idle"

\* Whether the bytes of the key buffer are a key of the curve in the form
\* the flag names.
RefKeyDecodes ==
    \/ /\ args.flag = 1
       /\ buf[1] \in {2, 3}
       /\ \E k \in 1..(N - 1) :
            RefG[k].x = from_bytes_be[SubSeq(buf, 2, ScalarLen + 1)]
    \/ /\ args.flag = 0
       /\ Len(buf) = 2 * ScalarLen + 1
       /\ buf[1] = 4
       /\ \E k \in 1..(N - 1) :
            /\ RefG[k].x = from_bytes_be[SubSeq(buf, 2, ScalarLen + 1)]
            /\ RefG[k].y = from_bytes_be[SubSeq(buf, ScalarLen + 2,
                                                2 * ScalarLen + 1)]

\* C21: the verify entry points return one of the documented codes, with a
\* compressed key (flag 1) and with an uncompressed key (flag 0) alike: -1
\* exactly for a null pointer, a flag outside {0, 1} or a key that does not
\* decode, and 1 or 0 otherwise; they never abort.
C21_FfiVerifyCodes ==
    FfiReturned
    => /\ ret \in {"1", "0", "-1"}
       /\ ret = "-1" <=> (args.null \/ args.flag \notin {0, 1}
                          \/ ~RefKeyDecodes)

\* With the flag 1 the calls that return give a documented code, and -1
\* exactly for the inputs the documentation names.
FfiCompressedCodes ==
    (FfiReturned /\ (args.null \/ args.flag # 0))
    => /\ ret \in {"1", "0", "-1"}
       /\ ret = "-1" <=> (args.null \/ args.flag # 1 \/ ~RefKeyDecodes)

\* ecc_secp256k1_schnorr_verify aborts on every uncompressed key.
FfiSchnorrUncompressedAborts ==
    (op = "ffi_schnorr_verify" /\ ~args.null /\ args.flag = 0)
    => ret = "abort"

\* ecc_secp256k1_ecdsa_verify returns 1 on an uncompressed key of the curve
\* and aborts on one that is not.
FfiEcdsaUncompressed ==
    (op = "ffi_ecdsa_verify" /\ ~args.null /\ args.flag = 0)
    => (ret = "abort" <=> ~RefKeyDecodes)

FfiAcceptWitness ==
    /\ op = "ffi_ecdsa_verify" /\ ret = "1" /\ args.flag = 0

FfiSchnorrAcceptWitness ==
    /\ op = "ffi_schnorr_verify" /\ pc = "idle" /\ ret = "1"



(***************************************************************************)
(* A private key d and the key d mod N side by side  (src/secp256k1.rs):   *)
(* PrivateKey::new keeps the scalar as given, and each operation is run on *)
(* both keys.  res holds the two results, args the inputs and the digests  *)
(* SHA-256 and the generator gave for the two keys.                        *)
(***************************************************************************)
MaxPrivKey == 2

\* Scalars that fit in ScalarLen bytes: small ones, and ones from the order
\* on (a 32-byte scalar is below twice the order).
PrivScalars == (1..MaxPrivKey) \cup (N..(N + MaxPrivKey)) \cup {2 * N - 1}

PairDigest == to_fixed_be[1, ScalarLen]

\* The first block deterministic_k_ecdsa generates for the key d.
first_candidate(d, m) == generate(drbg_new(serialize(d), m), 1).out[1]

PairPubkey ==
    /\ op = "init"
    /\ \E d \in PrivScalars :
         /\ args' = [d |-> d, m |-> <<>>, peer |-> 0, draws |-> <<>>]
         /\ res' = <<generate_pubkey(d), generate_pubkey(d % N)>>
    /\ op' = "pair_pubkey"
    /\ UNCHANGED <<coreVarsButOp, ecdhVars, nonceVars, ctxVars>>

PairEcdh ==
    /\ op = "init"
    /\ \E d \in PrivScalars, b \in EcdhPeers :
         /\ args' = [d |-> d, m |-> <<>>, peer |-> b, draws |-> <<>>]
         /\ res' = <<ecdh(d, generate_pubkey(b)),
                     ecdh(d % N, generate_pubkey(b))>>
    /\ op' = "pair_ecdh"
    /\ UNCHANGED <<coreVarsButOp, ecdhVars, nonceVars, ctxVars>>

\* PrivateKey::sign for the two keys, the first candidate of each being in
\* range: the same block spells the same number.
PairSign ==
    /\ op = "init"
    /\ \E d \in PrivScalars, w1 \in DrbgWords, w2 \in DrbgWords :
         /\ ~nonce_rejected(w1) /\ ~nonce_rejected(w2)
         /\ first_candidate(d, PairDigest) = first_candidate(d % N, PairDigest)
            => w1 = w2
         /\ args' = [d |-> d, m |-> PairDigest, peer |-> 0,
                     draws |-> <<w1, w2>>]
         /\ res' = <<sign(d, PairDigest, w1), sign(d % N, PairDigest, w2)>>
    /\ op' = "pair_sign"
    /\ UNCHANGED <<coreVarsButOp, ecdhVars, nonceVars, ctxVars>>

\* PrivateKey::sign_schnorr for the two keys: the same query to SHA-256
\* gets the same digest, for the nonce and for the challenge.
PairSignSchnorr ==
    /\ op = "init"
    /\ \E d \in PrivScalars,
          kd1 \in NonceDigestWords, kd2 \in NonceDigestWords,
          ed1 \in ChalDigestWords, ed2 \in ChalDigestWords :
         LET out1 == sign_schnorr(d, to_fixed_be[kd1, ScalarLen],
                                  to_fixed_be[ed1, ScalarLen])
             out2 == sign_schnorr(d % N, to_fixed_be[kd2, ScalarLen],
                                  to_fixed_be[ed2, ScalarLen])
         IN  /\ schnorr_k_query(d, PairDigest)
                  = schnorr_k_query(d % N, PairDigest) => kd1 = kd2
             /\ get_e_query(out1.xR, generate_pubkey(d), PairDigest)
                  = get_e_query(out2.xR, generate_pubkey(d % N), PairDigest)
                => ed1 = ed2
             /\ args' = [d |-> d, m |-> PairDigest, peer |-> 0,
                         draws |-> <<kd1, kd2, ed1, ed2>>]
             /\ res' = <<[abort |-> out1.abort, sig |-> out1.sig],
                         [abort |-> out2.abort, sig |-> out2.sig]>>
    /\ op' = "pair_sign_schnorr"
    /\ UNCHANGED <<coreVarsButOp, ecdhVars, nonceVars, ctxVars>>

NextPrivKey == PairPubkey \/ PairEcdh \/ PairSign \/ PairSignSchnorr

SpecPrivKey == Init /\ [][NextPrivKey]_vars

PairOps == {"pair_pubkey", "pair_ecdh", "pair_sign", "pair_sign_schnorr"}

\* C24: the scalar of a private key is reduced mod the order on use: for
\* every d that fits in ScalarLen bytes, generate_pubkey, ecdh, sign and
\* sign_schnorr return for d what they return for d mod N.
C24_ScalarReducedOnUse ==
    op \in PairOps => res[1] = res[2]

\* generate_pubkey and ecdh return for d what they return for d mod N.
PointOpsReduceScalar ==
    op \in {"pair_pubkey", "pair_ecdh"} => res[1] = res[2]

\* sign and sign_schnorr return for d what they return for d mod N when
\* the digests drawn for the two keys are the same.
SigningReducesGivenDigests ==
    /\ (op = "pair_sign" /\ args.draws[1] = args.draws[2])
       => res[1] = res[2]
    /\ (op = "pair_sign_schnorr" /\ args.draws[1] = args.draws[2]
          /\ args.draws[3] = args.draws[4])
       => res[1] = res[2]

\* A key below the order is its own reduction: the digests are the same.
ReducedKeySameDigests ==
    (op \in {"pair_sign", "pair_sign_schnorr"} /\ args.d < N)
    => /\ args.draws[1] = args.draws[2]
       /\ res[1] = res[2]

\* The keys N + 1 and 1 sign one digest with different signatures.
UnreducedKeySignsApart ==
    /\ op = "pair_sign"
    /\ args.d = N + 1
    /\ ~res[1].abort /\ ~res[2].abort
    /\ res[1].sig # res[2].sig

UnreducedPubkeyWitness ==
    /\ op = "pair_pubkey"
    /\ args.d > N
    /\ res[1] = res[2]
    /\ res[1] # PointZero

(***************************************************************************)
(* The range of the ECDSA nonce  (deterministic_k_ecdsa).                  *)
(***************************************************************************)
\* The block in hand spells w, and w is zero or not below the order.
BlockOutOfRange(w) == <<cand, w>> \in oracle' /\ (w = 0 \/ w >= N)

\* C25: the nonce deterministic_k_ecdsa returns satisfies 1 <= k < N: it is
\* the number the last generated block spells; a block that is zero or not
\* below the order is never returned, and then the state is re-keyed and
\* the next block generated.
C25_NonceInRange ==
    /\ [](op = "sign_drbg"
           => (1 <= nonce /\ nonce < N /\ <<cand, nonce>> \in oracle))
    /\ [][(pc = "k_loop" /\ pc' = "idle")
           => (\A w \in DrbgWords : ~BlockOutOfRange(w))]_vars
    /\ [][(pc = "k_loop" /\ cand' # cand)
           => /\ \E w \in DrbgWords : BlockOutOfRange(w)
              /\ pc' = "k_loop"
              /\ drbg'.k = HmacSha256(drbg.k, drbg.v \o <<0>>)]_vars

\* A nonce just below the order, returned after a block that spells more
\* than the order in its first byte alone.
C25_Witness ==
    /\ op = "sign_drbg"
    /\ tries = 2
    /\ nonce = N - 1
    /\ \E p \in oracle : p[2] >= ByteBase

(***************************************************************************)
(* HmacSha256Drbg on its own  (src/hash/hmac_sha2.rs), generate one round  *)
(* of its loop at a time.  A block has ScalarLen bytes (32).  args holds   *)
(* the length asked for, the loop variable i, the number of updates of v   *)
(* made and the state the call started from; res holds what was written    *)
(* to out, block by block, with the number of bytes taken from each block. *)
(***************************************************************************)
MaxSeed == 2

MaxOutLen == 5

MaxGenerateCalls == 2

DrbgSeeds == {to_fixed_be[w, ScalarLen] : w \in 0..MaxSeed}

Min(a, b) == IF a <= b THEN a ELSE b

RECURSIVE Written(_)
Written(out) ==
    IF out = <<>> THEN 0 ELSE out[1].amount + Written(Tail(out))

\* for i in (0..=(len / 32)).rev(): the value of i the call starts with.
first_round(len) == len \div ScalarLen

\* HmacSha256Drbg::new(seed, Some(seed2))
DrbgNew ==
    /\ op = "init"
    /\ \E seed \in DrbgSeeds, seed2 \in DrbgDigests :
         drbg' = drbg_new(seed, seed2)
    /\ op' = "drbg_new"
    /\ UNCHANGED <<cand, tries, oracle, prev, ecdhVars, ctxVars, pureVars>>
    /\ UNCHANGED coreVarsButOp

\* HmacSha256Drbg::generate(out) up to its loop, on the state in hand.
GenerateCall ==
    /\ op \in {"drbg_new", "generate_done"}
    /\ tries < MaxGenerateCalls
    /\ \E len \in 0..MaxOutLen :
         args' = [len |-> len, i |-> first_round(len), updates |-> 0,
                  k |-> drbg.k, v |-> drbg.v]
    /\ res' = <<>>
    /\ pc' = "gen_loop"
    /\ op' = "generate"
    /\ ret' = "none"
    /\ UNCHANGED <<nonceVars, ecdhVars, ctxVars>>
    /\ UNCHANGED <<priv, pub, msg, nonce, sig, signed, chal, lhs, mul, buf,
                   key>>

\* One round of the loop: v = HMAC(k, v), then out.write(&v), which takes
\* what is left of out; a short write before the last round aborts.
GenerateRound ==
    /\ pc = "gen_loop"
    /\ args.i >= 0
    /\ LET v      == HmacSha256(drbg.k, drbg.v)
           amount == Min(ScalarLen, args.len - Written(res))
       IN  /\ drbg' = [k |-> drbg.k, v |-> v]
           /\ res' = IF amount > 0
                     THEN Append(res, [block |-> v, amount |-> amount])
                     ELSE res
           /\ IF \/ args.i > 0 /\ amount # ScalarLen
                 \/ args.i = 0 /\ amount > 0 /\ amount # args.len % ScalarLen
              THEN /\ ret' = "abort"
                   /\ pc' = "idle"
              ELSE UNCHANGED <<ret, pc>>
    /\ args' = [args EXCEPT !.i = @ - 1, !.updates = @ + 1]
    /\ UNCHANGED <<cand, tries, oracle, prev, ecdhVars, ctxVars>>
    /\ UNCHANGED <<op, priv, pub, msg, nonce, sig, signed, chal, lhs, mul, buf,
                   key>>

\* The loop is over: generate returns.
GenerateReturn ==
    /\ pc = "gen_loop"
    /\ args.i < 0
    /\ pc' = "idle"
    /\ op' = "generate_done"
    /\ ret' = "ok"
    /\ tries' = tries + 1
    /\ UNCHANGED <<drbg, cand, oracle, prev, ecdhVars, ctxVars, pureVars>>
    /\ UNCHANGED <<priv, pub, msg, nonce, sig, signed, chal, lhs, mul, buf,
                   key>>

NextDrbg == DrbgNew \/ GenerateCall \/ GenerateRound \/ GenerateReturn

SpecDrbg == Init /\ [][NextDrbg]_vars

\* V after j updates V = HMAC(K, V) from the state the call started with.
RECURSIVE RefBlock(_)
RefBlock(j) ==
    IF j = 0 THEN args.v ELSE HmacSha256(args.k, RefBlock(j - 1))

RefBlockCount == (args.len + ScalarLen - 1) \div ScalarLen

\* The successive blocks, cut off at len bytes.
RefOutput ==
    [j \in 1..RefBlockCount |->
        [block  |-> RefBlock(j),
         amount |-> IF j * ScalarLen <= args.len THEN ScalarLen
                    ELSE args.len % ScalarLen]]

\* C26: generate on a buffer of len bytes makes exactly ceil(len / 32)
\* updates V = HMAC(K, V), writes these values one after the other cut off
\* at len bytes, leaves K as it was, and leaves V equal to the last block
\* that gave bytes to the output.
C26_GenerateUpdates ==
    op = "generate_done"
    => /\ args.updates = RefBlockCount
       /\ res = RefOutput
       /\ drbg.k = args.k
       /\ drbg.v = RefBlock(RefBlockCount)

\* What generate writes is right and K is not touched, whatever the length.
GenerateOutput ==
    op = "generate_done"
    => /\ ret = "ok"
       /\ res = RefOutput
       /\ Written(res) = args.len
       /\ drbg.k = args.k

\* The number of updates is floor(len / 32) + 1: the claimed one when len
\* is not a multiple of the block length, one more when it is, and then V
\* is the block after the last one written.
GenerateUpdatesAsCoded ==
    op = "generate_done"
    => /\ args.updates = (args.len \div ScalarLen) + 1
       /\ drbg.v = RefBlock(args.updates)
       /\ args.len % ScalarLen # 0
          => (args.updates = RefBlockCount
                /\ drbg.v = res[Len(res)].block)
       /\ args.len % ScalarLen = 0
          => (args.updates = RefBlockCount + 1
                /\ (args.len > 0
                      => drbg.v = HmacSha256(drbg.k, res[Len(res)].block)))

\* One block asked for, as deterministic_k_ecdsa does: two updates.
OneBlockTwoUpdates ==
    /\ op = "generate_done"
    /\ args.len = ScalarLen
    /\ args.updates = 2
    /\ Len(res) = 1

\* A block and a half asked for: two updates, the second block cut.
PartialBlockWitness ==
    /\ op = "generate_done"
    /\ tries = 2
    /\ args.len = ScalarLen + 1
    /\ args.updates = 2
    /\ drbg.v = res[2].block

(***************************************************************************)
(* Sha256  (src/hash/sha2.rs): the buffering of the input and the padding. *)
(* The compression function is not computed: hash is the list of the       *)
(* blocks compressed so far, in order, so that a block compressed twice, a *)
(* block left out or a wrong byte shows.  A u32 is kept as its two 16-bit  *)
(* halves.  args holds the Sha256 value {hash, curr, len} and whether a    *)
(* debug assertion or unreachable!() was hit; buf holds the bytes fed.     *)
(***************************************************************************)
BLOCK_SIZE == 64

BLOCK_SIZE_BITS == BLOCK_SIZE * 8

U64_BYTES == 8

MaxInputs == 2

MaxShaSmall == 2

\* Vec64::empty
empty == [data |-> [i \in 1..BLOCK_SIZE |-> 0], pos |-> 0]

\* Vec64::is_full, Vec64::is_empty
is_full(v) == v.pos = BLOCK_SIZE

is_empty(v) == v.pos = 0

\* Vec64::to_data: the 64 bytes as 16 big-endian u32.
to_data(v) ==
    [w \in 1..(BLOCK_SIZE \div 4) |->
        <<v.data[4 * w - 3] * ByteBase + v.data[4 * w - 2],
          v.data[4 * w - 1] * ByteBase + v.data[4 * w]>>]

\* Sha256::process_block: the block joins the chain.
process_block(hash, block) == Append(hash, block)

\* Sha256::process_current_block
process_current_block(s) ==
    [hash  |-> process_block(s.hash, to_data(s.curr)),
     curr  |-> empty,
     len   |-> s.len,
     abort |-> s.abort \/ ~is_full(s.curr)]

\* Vec64::push after the test of Sha256::input, for one byte.
push(s, byte) ==
    LET t == IF is_full(s.curr) THEN process_current_block(s) ELSE s
    IN  IF is_full(t.curr) THEN [t EXCEPT !.abort = TRUE]
        ELSE [t EXCEPT !.curr = [data |-> [t.curr.data EXCEPT
                                             ![t.curr.pos + 1] = byte],
                                 pos  |-> t.curr.pos + 1]]

\* for &byte in data, from the byte i on; a panic ends it.
RECURSIVE input_loop(_, _, _)
input_loop(s, data, i) ==
    IF s.abort \/ i > Len(data) THEN s
    ELSE input_loop(push(s, data[i]), data, i + 1)

\* Sha256::input
input(s, data) ==
    [input_loop(s, data, 1) EXCEPT !.len = @ + 8 * Len(data)]

\* A finalize that writes the length field from self.len as it is by then,
\* the padding bytes counted in.
finalize_internal_counting_padding(s) ==
    LET how_many_zeros ==
            (BLOCK_SIZE_BITS - BLOCK_SIZE - 8 - s.len) % BLOCK_SIZE_BITS
        s1 == input(s, <<128>>)
        s2 == IF how_many_zeros # 0
              THEN input(s1, [i \in 1..(how_many_zeros \div 8) |-> 0])
              ELSE s1
        s3 == input(s2, to_fixed_be[s2.len, U64_BYTES])
        s4 == IF s3.curr.pos = BLOCK_SIZE THEN process_current_block(s3)
              ELSE s3
    IN  [s4 EXCEPT !.abort = @ \/ ~is_empty(s4.curr)]

\* Sha256::finalize_internal; the wrapping subtractions are taken mod
\* BLOCK_SIZE_BITS, which divides 2^64.
finalize_internal(s) ==
    LET len == s.len
        how_many_zeros ==
            (BLOCK_SIZE_BITS - BLOCK_SIZE - 8 - len) % BLOCK_SIZE_BITS
        s1 == input(s, <<128>>)
        s2 == IF how_many_zeros # 0
              THEN input(s1, [i \in 1..(how_many_zeros \div 8) |-> 0])
              ELSE s1
        s3 == input(s2, to_fixed_be[len, U64_BYTES])
        s4 == IF s3.curr.pos = BLOCK_SIZE THEN process_current_block(s3)
              ELSE s3
    IN  [s4 EXCEPT !.abort = @ \/ ~is_empty(s4.curr)]

\* The lengths of one input: short ones, and ones around the last length
\* that is padded within its block and around the block length.
ShaInputLens ==
    (0..MaxShaSmall)
      \cup ((BLOCK_SIZE - U64_BYTES - 2)..(BLOCK_SIZE - U64_BYTES))
      \cup ((BLOCK_SIZE - 1)..(BLOCK_SIZE + 1))

\* The byte an input repeats: a letter, or the first byte of the padding.
ShaInputBytes == {97, 128}

\* Sha256::new
Sha256New ==
    /\ op = "init"
    /\ args' = [hash |-> <<>>, curr |-> empty, len |-> 0, abort |-> FALSE]
    /\ buf' = <<>>
    /\ tries' = 0
    /\ op' = "sha_new"
    /\ UNCHANGED <<res, drbg, cand, oracle, prev, ecdhVars, ctxVars>>
    /\ UNCHANGED <<pc, priv, pub, msg, nonce, sig, signed, chal, lhs, mul, key,
                   ret>>

\* Sha256::input(data)
Sha256Input ==
    /\ op \in {"sha_new", "sha_input"}
    /\ tries < MaxInputs
    /\ \E n \in ShaInputLens, byte \in ShaInputBytes :
         LET data == [i \in 1..n |-> byte]
         IN  /\ args' = input(args, data)
             /\ buf' = buf \o data
    /\ tries' = tries + 1
    /\ op' = "sha_input"
    /\ UNCHANGED <<res, drbg, cand, oracle, prev, ecdhVars, ctxVars>>
    /\ UNCHANGED <<pc, priv, pub, msg, nonce, sig, signed, chal, lhs, mul, key,
                   ret>>

\* Sha256::finalize: the hash after finalize_internal.
Sha256Finalize ==
    /\ op \in {"sha_new", "sha_input"}
    /\ args' = finalize_internal(args)
    /\ res' = finalize_internal(args).hash
    /\ op' = "sha_finalize"
    /\ UNCHANGED <<buf, tries, drbg, cand, oracle, prev, ecdhVars, ctxVars>>
    /\ UNCHANGED <<pc, priv, pub, msg, nonce, sig, signed, chal, lhs, mul, key,
                   ret>>

NextSha == Sha256New \/ Sha256Input \/ Sha256Finalize

SpecSha == Init /\ [][NextSha]_vars

ShaOps == {"sha_new", "sha_input", "sha_finalize"}

\* The padded message of FIPS 180-4 for the bytes fed: the bytes, 0x80,
\* (55 - L) mod 64 zero bytes, and 8 * L as 64 bits, big-endian (8 * L is
\* below 2^16 here).
RefPadded ==
    LET L == Len(buf)
    IN  buf \o <<128>>
            \o [i \in 1..((BLOCK_SIZE - U64_BYTES - 1 - L) % BLOCK_SIZE) |-> 0]
            \o <<0, 0, 0, 0, 0, 0, (8 * L) \div ByteBase, (8 * L) % ByteBase>>

\* The 64-byte blocks of a byte string, as 16 big-endian words each.
RefBlocks(bytes) ==
    [b \in 1..(Len(bytes) \div BLOCK_SIZE) |->
        [w \in 1..16 |->
            LET at == BLOCK_SIZE * (b - 1) + 4 * (w - 1)
            IN  <<bytes[at + 1] * ByteBase + bytes[at + 2],
                  bytes[at + 3] * ByteBase + bytes[at + 4]>>]]

\* C27: however the L bytes are split over the calls of input, finalize
\* compresses exactly the 64-byte blocks of the bytes, 0x80, (55 - L) mod 64
\* zero bytes and the 64-bit big-endian 8 * L, each block once and in
\* order; the buffer never holds more than 64 bytes and is empty when the
\* digest is returned.
C27_ShaPadding ==
    op \in ShaOps
    => /\ ~args.abort
       /\ args.curr.pos <= BLOCK_SIZE
       /\ op = "sha_finalize"
          => /\ Len(RefPadded) % BLOCK_SIZE = 0
             /\ res = RefBlocks(RefPadded)
             /\ args.curr.pos = 0

\* Before finalize the chain and the buffer hold the bytes fed, in order,
\* and len is their number of bits; the last full block waits in the buffer.
ShaInputBuffered ==
    op \in {"sha_new", "sha_input"}
    => /\ args.len = 8 * Len(buf)
       /\ args.hash \o (IF is_full(args.curr) THEN <<to_data(args.curr)>>
                        ELSE <<>>)
            = RefBlocks(buf)
       /\ ~is_full(args.curr)
          => SubSeq(args.curr.data, 1, args.curr.pos)
               = SubSeq(buf, Len(buf) - args.curr.pos + 1, Len(buf))
       /\ (Len(buf) > 0 /\ Len(buf) % BLOCK_SIZE = 0) => is_full(args.curr)

\* Two inputs, 56 and 64 bytes: 120 bytes take three blocks.
C27_Witness ==
    /\ op = "sha_finalize"
    /\ tries = 2
    /\ Len(buf) = 2 * BLOCK_SIZE - U64_BYTES
    /\ Len(res) = 3
    /\ res[3][16] = <<0, 8 * Len(buf)>>

\* 55 bytes are padded within their block.
ShaOneBlockWitness ==
    /\ op = "sha_finalize"
    /\ Len(buf) = BLOCK_SIZE - U64_BYTES - 1
    /\ Len(res) = 1

(***************************************************************************)
(* The form of what serialize_der writes.                                  *)
(***************************************************************************)
\* What is left of a scalar without its leading zero bytes.
RECURSIVE RefSignificant(_)
RefSignificant(scalar) ==
    IF scalar # <<>> /\ scalar[1] = 0 THEN RefSignificant(Tail(scalar))
    ELSE scalar

\* The minimal two's-complement encoding of a positive scalar.
RefMinimal(scalar) ==
    LET digits == RefSignificant(scalar)
    IN  IF digits[1] >= 128 THEN <<0>> \o digits ELSE digits

RefDer(sg) ==
    LET r == RefMinimal(sg.r)
        s == RefMinimal(sg.s)
    IN  <<48, Len(r) + Len(s) + 4, 2, Len(r)>> \o r \o <<2, Len(s)>> \o s

SigNonZero ==
    from_bytes_be[sig.r] # 0 /\ from_bytes_be[sig.s] # 0

\* C28: for every signature with r and s not zero, serialize_der writes
\* 0x30, the number of bytes that follow, and for r and for s the bytes
\* 0x02, length, value, the value being the minimal big-endian encoding: a
\* single leading 0x00 exactly when the first significant byte is >= 0x80,
\* and no other leading zero; at most 2 * (ScalarLen + 1) + 6 bytes in all
\* (72).
C28_DerForm ==
    (op = "serialize_der" /\ SigNonZero)
    => /\ ret = "ok"
       /\ buf = RefDer(sig)
       /\ buf[2] = Len(buf) - 2
       /\ Len(buf) <= 2 * (ScalarLen + 1) + 6
       /\ \A at \in {3, 5 + buf[4]} :
            /\ buf[at] = 2
            /\ buf[at + 1] >= 1
            /\ buf[at + 2] < 128
            /\ buf[at + 2] = 0 => (buf[at + 1] >= 2 /\ buf[at + 3] >= 128)

\* The longest output: r and s of full width with the high bit set.
C28_Witness ==
    /\ op = "serialize_der" /\ ret = "ok"
    /\ Len(buf) = 2 * (ScalarLen + 1) + 6
    /\ buf[5] = 0 /\ buf[6] >= 128

\* A one-byte r: the leading zero bytes of the scalar are dropped.
DerShortIntWitness ==
    /\ op = "serialize_der" /\ ret = "ok"
    /\ buf[4] = 1
    /\ sig.r[1] = 0

\* With r or s zero serialize_der aborts.
DerZeroAborts ==
    (op = "serialize_der" /\ ~SigNonZero) => ret = "abort"

(***************************************************************************)
(* The Schnorr challenge as a scalar.                                      *)
(***************************************************************************)
\* The number the challenge digest in hand spells.
ChalNum == from_bytes_be[chal.e]

\* The loop of e.num * &self.point has not made a round yet.
MulAtStart == mul.result = gen_zero[pub] /\ mul.adding = pub

\* C29: the challenge is used reduced mod N, for every value h of the
\* digest, 0 and values from N on included: signing returns
\* s = k + (h mod N) * d, and verify_schnorr_raw multiplies the public key
\* by (-h) mod N, a scalar in [0, N).
C29_ChallengeReduced ==
    /\ (op = "sign_schnorr" /\ signed)
       => SNum = (nonce + (ChalNum % N) * priv) % N
    /\ pc = "vs_mul"
       => /\ 0 <= mul.other /\ mul.other < N
          /\ MulAtStart => mul.other = (N - (ChalNum % N)) % N

\* Signing does use h mod N: the product e * d is reduced.
SchnorrSigningReduced ==
    (op = "sign_schnorr" /\ signed)
    => SNum = (nonce + (ChalNum % N) * priv) % N

\* For a digest in [1, N] the multiplier is (-h) mod N.
ChallengeUpToOrderReflected ==
    (pc = "vs_mul" /\ 1 <= ChalNum /\ ChalNum <= N)
    => /\ 0 <= mul.other /\ mul.other < N
       /\ MulAtStart => mul.other = (N - (ChalNum % N)) % N

\* For the digest 0 the multiplier is N, and past N it is negative.
ChallengeOutsideAsCoded ==
    (pc = "vs_mul" /\ MulAtStart /\ (ChalNum = 0 \/ ChalNum > N))
    => mul.other = N - ChalNum

ChallengeAboveOrderWitness ==
    pc = "vs_mul" /\ ChalNum = N + 1 /\ mul.other < 0

ChallengeZeroWitness ==
    pc = "vs_mul" /\ ChalNum = 0 /\ mul.other = N

(***************************************************************************)
(* The parity of y in the compressed encoding.                             *)
(***************************************************************************)
\* The square roots of x^3 + 7 modulo P, found by trying every y.
RefRoots(x) == {y \in 0..(P - 1) : RefOnCurve(x % P, y)}

\* C30: for every input from_compressed accepts, the y of the key is even
\* when the leading byte is 2 and odd when it is 3, and it is the one of
\* the two square roots of x^3 + 7, sqrt and P - sqrt, that has this
\* parity; compressed writes 2 exactly when y is even.
C30_CompressedParity ==
    /\ (op = "from_compressed" /\ ret = "ok")
       => /\ buf[1] \in {2, 3}
          /\ key.y.num % 2 = buf[1] - 2
          /\ key.y.num \in RefRoots(EncodedX)
          /\ key.y.num \in {sqrt[FE((EncodedX * EncodedX * EncodedX + CurveB) % P, P)].num,
                            P - sqrt[FE((EncodedX * EncodedX * EncodedX + CurveB) % P, P)].num}
    /\ op = "compressed"
       => /\ buf[1] \in {2, 3}
          /\ buf[1] = 2 <=> pub.y.num % 2 = 0

\* A caller's key whose computed root had the other parity: the root was
\* reflected.
C30_Witness ==
    /\ op = "from_compressed" /\ ret = "ok"
    /\ buf[1] = 3
    /\ key.y # get_y[key.x]
    /\ key.y.num % 2 = 1

\* An even key came back from the prefix 2 with the root as computed.
EvenKeyWitness ==
    /\ op = "from_compressed" /\ ret = "ok"
    /\ buf[1] = 2
    /\ key.y = get_y[key.x]
    /\ key.x.num >= P

=============================================================================
